---------------------------- MODULE Spec2Model ----------------------------
(***************************************************************************)
(* A model of socket_server: the message wire format (message.py), the     *)
(* incremental frame parser (MessageParser), the client read loop          *)
(* (client.py) and the server connection handler (server.py).              *)
(*                                                                         *)
(* Bytes are sequences of one-byte tokens: an ASCII byte is the one-       *)
(* character string of its character, and the three non-ASCII bytes used   *)
(* are "xC3", "xA9" (together the UTF-8 encoding of U+00E9) and "xFF"      *)
(* (never valid in UTF-8).  A Python str is a sequence of code points: an  *)
(* ASCII character as its one-character string, U+00E9 as "U+E9".          *)
(* Python values are tagged records (PyNone, PyInt, PyStr, PyBytes,        *)
(* PyDict); a dict is the sequence of its items in insertion order.        *)
(***************************************************************************)
EXTENDS Integers, Sequences, FiniteSets, TLC

VARIABLES
    \* a sender writing frames to a stream and a MessageParser reading it
    sent,        \* the messages whose frames were written to the stream, in order
    sentBytes,   \* all the bytes written to the stream so far
    wire,        \* bytes written to the stream and not yet passed to received_data
    fed,         \* number of bytes passed to received_data so far
    parser,      \* the MessageParser: _data, _current_header_length, _current_header
    yielded,     \* all messages yielded by parse_messages so far, in order
    lastDrain,   \* the messages yielded by the last drain of parse_messages
    raised,      \* the exception the last drain of parse_messages raised, or "none"
    feeds,       \* the received_data calls so far: "none", "one1" (one call, of one
                 \* byte), "oneN" (one call, of several bytes), "bytes" (several
                 \* calls, each of one byte) or "mixed" (any other)
    pending,     \* TRUE when received_data was called and parse_messages not yet
    units,       \* the units the parser has removed from its buffer so far, in
                 \* order: [unit, n], unit being "length", "header" or "content"
                 \* and n the number of bytes
    \* one message taken through encode() and a fresh parser
    original,    \* the message
    frame,       \* what original.encode() returned, or "unset" before the call
    decoded,     \* the drain of a fresh parser fed the frame, or "unset"
    \* a TCP connection between a client end and a server end
    c2s,         \* bytes written by the client end and not yet read by the server end
    s2c,         \* bytes written by the server end and not yet read by the client end
    clientEnd,   \* "open" or "closed": the socket of the client end
    serverEnd,   \* "open" or "closed": the socket of the server end
    peerSent,    \* the messages a scripted peer has written, in order
    \* client.py: a SocketClient and the program of test_client.py using it
    client,      \* the SocketClient: socket, _listen_socket, message_parser, and the
                 \* program counter of its caller
    delivered,   \* the messages receive_messages() has yielded to the caller, in order
    \* server.py: one _SocketConnectionHandlerThread of a worker
    handlers,    \* the registry: text and json handler or None, event name -> handler
    worker,      \* the _SocketWorkerProcess that accepted the connection
    conn,        \* the thread: client_socket, _listen_socket, message_parser, its
                 \* program counter, the message in dispatch and the handler's result
    invoked,     \* the handlers called for the message in dispatch, in order
    wrote,       \* the messages the thread wrote to its socket for the message in
                 \* dispatch, in order
    \* server.py: the SocketServer and the worker processes it starts
    supervisor,  \* the SocketServer: address, socket_type, _handlers, _workers, and
                 \* the program counter and local variables of start()
    procs        \* the _SocketWorkerProcess objects created so far, in order

parserVars ==
    <<sent, sentBytes, wire, fed, parser, yielded, lastDrain, raised, feeds, pending, units>>
codecVars == <<original, frame, decoded>>
netVars == <<c2s, s2c, clientEnd, serverEnd, peerSent>>
clientVars == <<client, delivered>>
connVars == <<handlers, worker, conn, invoked, wrote>>
supVars == <<supervisor, procs>>

-----------------------------------------------------------------------------
(* Python values *)

PyNone == [k |-> "none"]
PyInt(n) == [k |-> "int", n |-> n]
PyStr(s) == [k |-> "str", s |-> s]
PyBytes(b) == [k |-> "bytes", b |-> b]
PyDict(items) == [k |-> "dict", items |-> items]
Item(key, val) == [key |-> key, val |-> val]

\* bool(v), as used by "if not v"
Truthy(v) ==
    CASE v.k = "none" -> FALSE
      [] v.k = "int" -> v.n # 0
      [] v.k = "str" -> Len(v.s) > 0
      [] v.k = "bytes" -> Len(v.b) > 0
      [] v.k = "dict" -> Len(v.items) > 0

\* seq[:n] and seq[n:] with Python's treatment of negative and large n
SliceStart(s, n) ==
    IF n >= 0 THEN (IF n > Len(s) THEN Len(s) ELSE n)
    ELSE (IF Len(s) + n < 0 THEN 0 ELSE Len(s) + n)
SliceTo(s, n) == SubSeq(s, 1, SliceStart(s, n))
SliceFrom(s, n) == SubSeq(s, SliceStart(s, n) + 1, Len(s))

\* key in d, for a dict d
HasKey(items, key) == \E i \in 1..Len(items) : items[i].key = key
\* d[key], for a dict d holding key
GetKey(items, key) == items[CHOOSE i \in 1..Len(items) : items[i].key = key].val
\* d[key] = val: a new key is appended, an existing key keeps its position
SetKey(items, key, val) ==
    IF HasKey(items, key)
    THEN [i \in 1..Len(items) |->
             IF items[i].key = key THEN Item(key, val) ELSE items[i]]
    ELSE Append(items, Item(key, val))

\* sub in s, for two str
IsSubstring(sub, s) ==
    \E i \in 0..(Len(s) - Len(sub)) : SubSeq(s, i + 1, i + Len(sub)) = sub

-----------------------------------------------------------------------------
(* str.encode('utf-8') and bytes.decode('utf-8') *)

NonAsciiBytes == {"xC3", "xA9", "xFF"}

Utf8EncodeChar(c) == IF c = "U+E9" THEN <<"xC3", "xA9">> ELSE <<c>>

\* the encoding of s[lo..hi], by halves
RECURSIVE Utf8EncodeRange(_, _, _)
Utf8EncodeRange(s, lo, hi) ==
    IF lo > hi THEN <<>>
    ELSE IF lo = hi THEN Utf8EncodeChar(s[lo])
    ELSE Utf8EncodeRange(s, lo, (lo + hi) \div 2)
         \o Utf8EncodeRange(s, ((lo + hi) \div 2) + 1, hi)

Utf8Encode(s) == Utf8EncodeRange(s, 1, Len(s))

\* b is well-formed UTF-8: an ASCII byte, or the pair "xC3" "xA9"
Utf8Valid(b) ==
    \A i \in 1..Len(b) :
        CASE b[i] = "xC3" -> i < Len(b) /\ b[i + 1] = "xA9"
          [] b[i] = "xA9" -> i > 1 /\ b[i - 1] = "xC3"
          [] b[i] = "xFF" -> FALSE
          [] OTHER -> TRUE

\* the code points of well-formed b[lo..hi], by halves; the continuation
\* byte "xA9" belongs to the code point of the "xC3" before it
RECURSIVE Utf8DecodeRange(_, _, _)
Utf8DecodeRange(b, lo, hi) ==
    IF lo > hi THEN <<>>
    ELSE IF lo = hi
    THEN (IF b[lo] = "xC3" THEN <<"U+E9">>
          ELSE IF b[lo] = "xA9" THEN <<>>
          ELSE <<b[lo]>>)
    ELSE Utf8DecodeRange(b, lo, (lo + hi) \div 2)
         \o Utf8DecodeRange(b, ((lo + hi) \div 2) + 1, hi)

\* [ok, s]: ok = FALSE stands for UnicodeDecodeError
Utf8Decode(b) ==
    IF Utf8Valid(b) THEN [ok |-> TRUE, s |-> Utf8DecodeRange(b, 1, Len(b))]
    ELSE [ok |-> FALSE, s |-> <<>>]

-----------------------------------------------------------------------------
(* str(n) and int(s) *)

Digits == <<"0", "1", "2", "3", "4", "5", "6", "7", "8", "9">>
IsDigit(c) == \E d \in 1..Len(Digits) : Digits[d] = c
DigitVal(c) == (CHOOSE d \in 1..Len(Digits) : Digits[d] = c) - 1
Radix == Len(Digits)

RECURSIVE NatToStr(_)
NatToStr(n) ==
    IF n < Radix THEN <<Digits[n + 1]>>
    ELSE Append(NatToStr(n \div Radix), Digits[(n % Radix) + 1])

IntToStr(n) == IF n < 0 THEN <<"-">> \o NatToStr(-n) ELSE NatToStr(n)

\* str.zfill(width) of a string of digits
RECURSIVE ZFill(_, _)
ZFill(s, width) == IF Len(s) >= width THEN s ELSE ZFill(<<"0">> \o s, width)

RECURSIVE StripLeft(_)
StripLeft(s) == IF s # <<>> /\ Head(s) = " " THEN StripLeft(Tail(s)) ELSE s
RECURSIVE StripRight(_)
StripRight(s) ==
    IF s # <<>> /\ s[Len(s)] = " " THEN StripRight(SubSeq(s, 1, Len(s) - 1)) ELSE s

\* the digits of a Python integer literal body: digits, single underscores between
RECURSIVE DigitsValue(_, _)
DigitsValue(s, acc) ==
    IF s = <<>> THEN acc
    ELSE IF Head(s) = "_" THEN DigitsValue(Tail(s), acc)
    ELSE DigitsValue(Tail(s), acc * Radix + DigitVal(Head(s)))

IsIntBody(s) ==
    /\ s # <<>>
    /\ \A i \in 1..Len(s) : IsDigit(s[i]) \/ s[i] = "_"
    /\ IsDigit(s[1]) /\ IsDigit(s[Len(s)])
    /\ \A i \in 1..(Len(s) - 1) : ~(s[i] = "_" /\ s[i + 1] = "_")

\* int(s): [ok, n]; ok = FALSE stands for ValueError
PyIntOfStr(s) ==
    LET t == StripRight(StripLeft(s))
        signed == t # <<>> /\ Head(t) \in {"+", "-"}
        body == IF signed THEN Tail(t) ELSE t
    IN  IF IsIntBody(body)
        THEN [ok |-> TRUE,
              n |-> IF signed /\ Head(t) = "-" THEN -DigitsValue(body, 0)
                    ELSE DigitsValue(body, 0)]
        ELSE [ok |-> FALSE, n |-> 0]

-----------------------------------------------------------------------------
(* json.dumps and json.loads, for None, int, str and dict with str keys *)

JsonEscapeChar(c) ==
    CASE c = "\"" -> <<"\\", "\"">>
      [] c = "\\" -> <<"\\", "\\">>
      [] c = "U+E9" -> <<"\\", "u", "0", "0", "e", "9">>
      [] OTHER -> <<c>>

RECURSIVE JsonEscape(_)
JsonEscape(s) ==
    IF s = <<>> THEN <<>> ELSE JsonEscapeChar(Head(s)) \o JsonEscape(Tail(s))

JsonString(s) == <<"\"">> \o JsonEscape(s) \o <<"\"">>

\* json.dumps(v): the text, with the default separators ", " and ": "
RECURSIVE JsonDumps(_)
RECURSIVE JsonDumpsItems(_)
JsonDumpsItems(items) ==
    IF items = <<>> THEN <<>>
    ELSE JsonString(Head(items).key) \o <<":", " ">> \o JsonDumps(Head(items).val)
         \o (IF Len(items) > 1 THEN <<",", " ">> ELSE <<>>)
         \o JsonDumpsItems(Tail(items))
JsonDumps(v) ==
    CASE v.k = "none" -> <<"n", "u", "l", "l">>
      [] v.k = "int" -> IntToStr(v.n)
      [] v.k = "str" -> JsonString(v.s)
      [] v.k = "dict" -> <<"{">> \o JsonDumpsItems(v.items) \o <<"}">>

\* A parse result: [ok, val, pos]; pos is the index after the value.
\* ok = FALSE stands for json.JSONDecodeError.
JsonFail == [ok |-> FALSE, val |-> PyNone, pos |-> 0]
JsonOk(val, pos) == [ok |-> TRUE, val |-> val, pos |-> pos]

RECURSIVE SkipWs(_, _)
SkipWs(s, i) == IF i <= Len(s) /\ s[i] = " " THEN SkipWs(s, i + 1) ELSE i

\* the characters of a string literal from index i, after the opening quote
RECURSIVE ScanString(_, _, _)
ScanString(s, i, acc) ==
    IF i > Len(s) THEN JsonFail
    ELSE IF s[i] = "\"" THEN JsonOk(PyStr(acc), i + 1)
    ELSE IF s[i] = "\\"
    THEN IF i + 1 <= Len(s) /\ s[i + 1] \in {"\"", "\\"}
         THEN ScanString(s, i + 2, Append(acc, s[i + 1]))
         ELSE IF i + 5 <= Len(s) /\ SubSeq(s, i + 1, i + 5) = <<"u", "0", "0", "e", "9">>
         THEN ScanString(s, i + 6, Append(acc, "U+E9"))
         ELSE JsonFail
    ELSE ScanString(s, i + 1, Append(acc, s[i]))

RECURSIVE ScanDigits(_, _)
ScanDigits(s, i) == IF i <= Len(s) /\ IsDigit(s[i]) THEN ScanDigits(s, i + 1) ELSE i

\* -?(0|[1-9][0-9]*)
ScanNumber(s, i) ==
    LET neg == s[i] = "-"
        j == IF neg THEN i + 1 ELSE i
    IN  IF j > Len(s) \/ ~IsDigit(s[j]) THEN JsonFail
        ELSE LET e == IF s[j] = "0" THEN j + 1 ELSE ScanDigits(s, j)
                 n == DigitsValue(SubSeq(s, j, e - 1), 0)
             IN  JsonOk(PyInt(IF neg THEN -n ELSE n), e)

RECURSIVE ParseValue(_, _)
RECURSIVE ParseMembers(_, _, _)
\* the members of an object from index i, the first character of a key
ParseMembers(s, i, items) ==
    IF i > Len(s) \/ s[i] # "\"" THEN JsonFail
    ELSE LET key == ScanString(s, i + 1, <<>>)
         IN  IF ~key.ok THEN JsonFail
             ELSE LET c == SkipWs(s, key.pos)
                  IN  IF c > Len(s) \/ s[c] # ":" THEN JsonFail
                      ELSE LET v == ParseValue(s, SkipWs(s, c + 1))
                           IN  IF ~v.ok THEN JsonFail
                               ELSE LET e == SkipWs(s, v.pos)
                                        items2 == SetKey(items, key.val.s, v.val)
                                    IN  IF e > Len(s) THEN JsonFail
                                        ELSE IF s[e] = "}" THEN JsonOk(PyDict(items2), e + 1)
                                        ELSE IF s[e] = ","
                                        THEN ParseMembers(s, SkipWs(s, e + 1), items2)
                                        ELSE JsonFail
ParseValue(s, i) ==
    IF i > Len(s) THEN JsonFail
    ELSE IF s[i] = "{"
    THEN LET j == SkipWs(s, i + 1)
         IN  IF j <= Len(s) /\ s[j] = "}" THEN JsonOk(PyDict(<<>>), j + 1)
             ELSE ParseMembers(s, j, <<>>)
    ELSE IF s[i] = "\"" THEN ScanString(s, i + 1, <<>>)
    ELSE IF s[i] = "-" \/ IsDigit(s[i]) THEN ScanNumber(s, i)
    ELSE IF i + 3 <= Len(s) /\ SubSeq(s, i, i + 3) = <<"n", "u", "l", "l">>
    THEN JsonOk(PyNone, i + 4)
    ELSE JsonFail

\* json.loads(s): [ok, val]
JsonLoads(s) ==
    LET v == ParseValue(s, SkipWs(s, 1))
    IN  IF v.ok /\ SkipWs(s, v.pos) = Len(s) + 1
        THEN [ok |-> TRUE, val |-> v.val]
        ELSE [ok |-> FALSE, val |-> PyNone]

-----------------------------------------------------------------------------
(* message.py: the Message classes *)

PROTOCOL_HEADER_LENGTH == 4
HEADER_CONTENT_TYPE_KEY == <<"c", "o", "n", "t", "e", "n", "t", "-", "t", "y", "p", "e">>
HEADER_CONTENT_LENGTH_KEY ==
    <<"c", "o", "n", "t", "e", "n", "t", "-", "l", "e", "n", "g", "t", "h">>
TEXT_PLAIN == <<"t", "e", "x", "t", "/", "p", "l", "a", "i", "n">>
APPLICATION_JSON ==
    <<"a", "p", "p", "l", "i", "c", "a", "t", "i", "o", "n", "/", "j", "s", "o", "n">>
CLOSE_CONTENT == <<"-", "-", "-", "C", "L", "O", "S", "E", "-", "-", "-">>
EVENT_NAME_KEY == <<"e", "v", "e", "n", "t", "_", "n", "a", "m", "e">>
EVENT_MESSAGE_KEY ==
    <<"e", "v", "e", "n", "t", "_", "m", "e", "s", "s", "a", "g", "e">>

\* An instance: its class, _content_type and _message
Message(content_type, message) ==
    [cls |-> "Message", content_type |-> content_type, message |-> message]
TextMessage(text_message) ==
    [cls |-> "TextMessage", content_type |-> PyStr(TEXT_PLAIN), message |-> text_message]
CloseMessage ==
    [cls |-> "CloseMessage", content_type |-> PyStr(TEXT_PLAIN),
     message |-> PyStr(CLOSE_CONTENT)]
JSONMessage(json_message) ==
    [cls |-> "JSONMessage", content_type |-> PyStr(APPLICATION_JSON),
     message |-> json_message]
EventMessage(name, message) ==
    [cls |-> "EventMessage", content_type |-> PyStr(APPLICATION_JSON),
     message |-> PyDict(<<Item(EVENT_NAME_KEY, name), Item(EVENT_MESSAGE_KEY, message)>>)]

\* isinstance(m, C), by the class hierarchy
IsTextMessage(m) == m.cls \in {"TextMessage", "CloseMessage"}
IsCloseMessage(m) == m.cls = "CloseMessage"
IsJSONMessage(m) == m.cls \in {"JSONMessage", "EventMessage"}
IsEventMessage(m) == m.cls = "EventMessage"

\* Message.encode_text(text)[0]
encode_text(text) ==
    IF ~Truthy(text) THEN PyNone ELSE PyBytes(Utf8Encode(text.s))

\* Message.encode_dict(value)[0]
encode_dict(value) ==
    IF ~Truthy(value) THEN PyNone ELSE PyBytes(Utf8Encode(JsonDumps(value)))

\* the encoded_message property of each class
encoded_message(m) ==
    IF IsTextMessage(m) THEN encode_text(m.message)
    ELSE IF IsJSONMessage(m) THEN encode_dict(m.message)
    ELSE m.message

encoded_message_length(m) ==
    IF ~Truthy(encoded_message(m)) THEN PyNone
    ELSE PyInt(Len(encoded_message(m).b))

header(m) ==
    PyDict(<<Item(HEADER_CONTENT_TYPE_KEY, m.content_type),
             Item(HEADER_CONTENT_LENGTH_KEY,
                  IF Truthy(encoded_message_length(m)) THEN encoded_message_length(m)
                  ELSE PyInt(0))>>)

encoded_header(m) == encode_dict(header(m))

encoded_header_length(m) == Len(encoded_header(m).b)

encode_header_length(m) ==
    IF encoded_header_length(m) = 0 THEN PyNone
    ELSE PyBytes(Utf8Encode(ZFill(IntToStr(encoded_header_length(m)),
                                  PROTOCOL_HEADER_LENGTH)))

\* encode() without the test of encoded_message: a frame of content-length 0
encode_without_message_test(m) ==
    IF ~Truthy(encoded_message(m))
    THEN PyBytes(encode_header_length(m).b \o encoded_header(m).b)
    ELSE PyBytes(encode_header_length(m).b \o encoded_header(m).b \o encoded_message(m).b)

\* Message.encode(): the frame as bytes, or None
encode(m) ==
    IF \/ ~Truthy(encode_header_length(m))
       \/ ~Truthy(encoded_header(m))
       \/ ~Truthy(encoded_message(m))
    THEN PyNone
    ELSE PyBytes(encode_header_length(m).b \o encoded_header(m).b \o encoded_message(m).b)

\* json.loads(text), as [exc, val]
decode_dict_loaded(parsed) ==
    IF ~parsed.ok THEN [exc |-> "JSONDecodeError", val |-> PyNone]
    ELSE [exc |-> "none", val |-> parsed.val]

\* b_value.decode('utf-8') done, then json.loads
decode_dict_text(text) ==
    IF ~text.ok THEN [exc |-> "UnicodeDecodeError", val |-> PyNone]
    ELSE decode_dict_loaded(JsonLoads(text.s))

\* Message.decode_dict(b_value): [exc, val]
decode_dict(b_value) == decode_dict_text(Utf8Decode(b_value))

TextMessage_decoded(text) ==
    IF ~text.ok THEN [exc |-> "UnicodeDecodeError", msg |-> PyNone]
    ELSE [exc |-> "none", msg |-> TextMessage(PyStr(text.s))]

\* TextMessage.from_message: set_message_from_bytes on a new TextMessage, [exc, msg]
TextMessage_from_message(b_message) ==
    IF b_message = <<>> THEN [exc |-> "none", msg |-> TextMessage(PyNone)]
    ELSE TextMessage_decoded(Utf8Decode(b_message))

JSONMessage_decoded(decoded_json) ==
    IF decoded_json.exc # "none" THEN [exc |-> decoded_json.exc, msg |-> PyNone]
    ELSE [exc |-> "none", msg |-> JSONMessage(decoded_json.val)]

\* JSONMessage.from_message: set_message_from_bytes on a new JSONMessage, [exc, msg]
JSONMessage_from_message(b_message) ==
    IF b_message = <<>> THEN [exc |-> "none", msg |-> JSONMessage(PyNone)]
    ELSE JSONMessage_decoded(decode_dict(b_message))

\* key in value: [exc, found]
PyIn(key, value) ==
    CASE value.k = "dict" -> [exc |-> "none", found |-> HasKey(value.items, key)]
      [] value.k = "str" -> [exc |-> "none", found |-> IsSubstring(key, value.s)]
      [] OTHER -> [exc |-> "TypeError", found |-> FALSE]

\* EventMessage.is_event_message(value): [exc, found]
is_event_message(value) ==
    LET n == PyIn(EVENT_NAME_KEY, value)
        m == PyIn(EVENT_MESSAGE_KEY, value)
    IN  IF n.exc # "none" THEN n
        ELSE IF ~n.found THEN n
        ELSE m

\* EventMessage.from_json_message(json_message): [exc, msg]
from_json_message(json_message) ==
    IF json_message.message.k # "dict" THEN [exc |-> "TypeError", msg |-> PyNone]
    ELSE [exc |-> "none",
          msg |-> EventMessage(GetKey(json_message.message.items, EVENT_NAME_KEY),
                               GetKey(json_message.message.items, EVENT_MESSAGE_KEY))]

-----------------------------------------------------------------------------
(* message.py: MessageParser.  A parser is the record of its three fields; *)
(* a method returns the parser after the call, with its result.            *)

\* MessageParser.__init__
NewParser ==
    [data |-> <<>>, current_header_length |-> PyNone, current_header |-> PyNone]

\* MessageParser.received_data(data), data being bytes
received_data(self, new_data) ==
    IF Len(new_data) > 0 THEN [self EXCEPT !.data = self.data \o new_data] ELSE self

\* read_protocol_header with four bytes that are no integer dropped
read_protocol_header_skip_malformed(self) ==
    LET text == Utf8Decode(SubSeq(self.data, 1, PROTOCOL_HEADER_LENGTH))
        header_length == PyIntOfStr(text.s)
    IN  IF ~(Len(self.data) >= PROTOCOL_HEADER_LENGTH) THEN self
        ELSE IF ~text.ok \/ ~header_length.ok
        THEN [self EXCEPT !.data = SliceFrom(self.data, PROTOCOL_HEADER_LENGTH)]
        ELSE [self EXCEPT !.current_header_length = PyInt(header_length.n),
                          !.data = SliceFrom(self.data, PROTOCOL_HEADER_LENGTH)]

\* read_protocol_header with the length prefix left in the buffer
read_protocol_header_keep_prefix(self) ==
    LET text == Utf8Decode(SubSeq(self.data, 1, PROTOCOL_HEADER_LENGTH))
        header_length == PyIntOfStr(text.s)
    IN  IF ~(Len(self.data) >= PROTOCOL_HEADER_LENGTH) THEN self
        ELSE IF ~text.ok \/ ~header_length.ok THEN self
        ELSE [self EXCEPT !.current_header_length = PyInt(header_length.n)]

\* MessageParser._read_protocol_header: the parser after the call
read_protocol_header(self) ==
    LET text == Utf8Decode(SubSeq(self.data, 1, PROTOCOL_HEADER_LENGTH))
        header_length == PyIntOfStr(text.s)
    IN  IF ~(Len(self.data) >= PROTOCOL_HEADER_LENGTH) THEN self
        ELSE IF ~text.ok \/ ~header_length.ok THEN self
        ELSE [self EXCEPT !.current_header_length = PyInt(header_length.n),
                          !.data = SliceFrom(self.data, PROTOCOL_HEADER_LENGTH)]

\* the header decoded: the except clause of _read_message_header names
\* json.JSONDecoder, which is no exception class, so that any error of
\* decode_dict ends in the TypeError Python raises for such a clause
message_header_decoded(self, n, header_dict) ==
    IF header_dict.exc # "none" THEN [self |-> self, exc |-> "TypeError"]
    ELSE [self |-> [self EXCEPT !.current_header = header_dict.val,
                                !.data = SliceFrom(self.data, n)],
          exc |-> "none"]

\* MessageParser._read_message_header: [self, exc]
read_message_header(self) ==
    IF ~Truthy(self.current_header_length) THEN [self |-> self, exc |-> "none"]
    ELSE IF ~(Len(self.data) >= self.current_header_length.n)
    THEN [self |-> self, exc |-> "none"]
    ELSE message_header_decoded(
             self, self.current_header_length.n,
             decode_dict(SliceTo(self.data, self.current_header_length.n)))

\* the branch of _map_message_by_type for application/json, after
\* is_event_message(json_message.message)
map_json_event(json_message, is_event) ==
    IF is_event.exc # "none" THEN [exc |-> is_event.exc, msg |-> PyNone]
    ELSE IF is_event.found THEN from_json_message(json_message.msg)
    ELSE json_message

\* the branch of _map_message_by_type for application/json, after
\* JSONMessage.from_message(message)
map_json(json_message) ==
    IF json_message.exc # "none" THEN json_message
    ELSE map_json_event(json_message, is_event_message(json_message.msg.message))

\* MessageParser._map_message_by_type(message_content): [exc, msg]
map_message_by_type(self, message_content) ==
    LET hdr == self.current_header
        content_type == GetKey(hdr.items, HEADER_CONTENT_TYPE_KEY)
    IN  IF ~Truthy(hdr) THEN [exc |-> "AssertionError", msg |-> PyNone]
        ELSE IF hdr.k # "dict" THEN [exc |-> "TypeError", msg |-> PyNone]
        ELSE IF content_type = PyStr(TEXT_PLAIN)
        THEN TextMessage_from_message(message_content)
        ELSE IF content_type = PyStr(APPLICATION_JSON)
        THEN map_json(JSONMessage_from_message(message_content))
        ELSE [exc |-> "none", msg |-> Message(content_type, PyBytes(message_content))]

\* message_content_mapped with the whole buffer dropped after a message
message_content_mapped_drop_buffer(self, message_length, mapped) ==
    IF mapped.exc = "JSONDecodeError" THEN [self |-> self, msg |-> PyNone, exc |-> "none"]
    ELSE IF mapped.exc # "none" THEN [self |-> self, msg |-> PyNone, exc |-> mapped.exc]
    ELSE [self |-> [self EXCEPT !.data = <<>>,
                                !.current_header_length = PyNone,
                                !.current_header = PyNone],
          msg |-> mapped.msg,
          exc |-> "none"]

\* the try block of _read_message_content after _map_message_by_type: only
\* json.JSONDecodeError is caught
message_content_mapped(self, message_length, mapped) ==
    IF mapped.exc = "JSONDecodeError" THEN [self |-> self, msg |-> PyNone, exc |-> "none"]
    ELSE IF mapped.exc # "none" THEN [self |-> self, msg |-> PyNone, exc |-> mapped.exc]
    ELSE [self |-> [self EXCEPT !.data = SliceFrom(self.data, message_length),
                                !.current_header_length = PyNone,
                                !.current_header = PyNone],
          msg |-> mapped.msg,
          exc |-> "none"]

\* read_message_content without the test that the whole content is buffered
read_message_content_no_length_test(self) ==
    LET hdr == self.current_header
        none == [self |-> self, msg |-> PyNone, exc |-> "none"]
        message_length == GetKey(hdr.items, HEADER_CONTENT_LENGTH_KEY)
    IN  IF ~Truthy(hdr) THEN none
        ELSE IF hdr.k # "dict" THEN none
        ELSE IF ~HasKey(hdr.items, HEADER_CONTENT_TYPE_KEY) THEN none
        ELSE IF ~HasKey(hdr.items, HEADER_CONTENT_LENGTH_KEY) THEN none
        ELSE IF message_length.k # "int" THEN [none EXCEPT !.exc = "TypeError"]
        ELSE message_content_mapped(
                 self, message_length.n,
                 map_message_by_type(self, SliceTo(self.data, message_length.n)))

\* MessageParser._read_message_content: [self, msg, exc]; msg = PyNone is the
\* result None
read_message_content(self) ==
    LET hdr == self.current_header
        none == [self |-> self, msg |-> PyNone, exc |-> "none"]
        has_type == PyIn(HEADER_CONTENT_TYPE_KEY, hdr)
        has_length == PyIn(HEADER_CONTENT_LENGTH_KEY, hdr)
        message_length == GetKey(hdr.items, HEADER_CONTENT_LENGTH_KEY)
    IN  IF ~Truthy(hdr) THEN none
        ELSE IF has_type.exc # "none" THEN [none EXCEPT !.exc = has_type.exc]
        ELSE IF ~has_type.found THEN none
        ELSE IF has_length.exc # "none" THEN [none EXCEPT !.exc = has_length.exc]
        ELSE IF ~has_length.found THEN none
        ELSE IF hdr.k # "dict" THEN [none EXCEPT !.exc = "TypeError"]
        ELSE IF message_length.k # "int" THEN [none EXCEPT !.exc = "TypeError"]
        ELSE IF ~(Len(self.data) >= message_length.n) THEN none
        ELSE message_content_mapped(
                 self, message_length.n,
                 map_message_by_type(self, SliceTo(self.data, message_length.n)))

\* the loop body of parse_messages after the header step
iteration_content(h) ==
    IF h.exc # "none" THEN [self |-> h.self, msg |-> PyNone, exc |-> h.exc]
    ELSE read_message_content(h.self)

\* the loop body of parse_messages after the length-prefix step
iteration_header(self) ==
    iteration_content(IF ~Truthy(self.current_header) THEN read_message_header(self)
                      ELSE [self |-> self, exc |-> "none"])

\* One iteration of the while loop of parse_messages: [self, msg, exc].
\* msg # PyNone: the iteration yields msg; otherwise the generator ends,
\* normally (exc = "none") or by raising exc.
parse_iteration(self) ==
    iteration_header(IF ~Truthy(self.current_header_length)
                     THEN read_protocol_header(self)
                     ELSE self)

\* The rest of a drain of parse_messages from inside its loop:
\* [self, msgs, exc], msgs being the messages yielded, in order.
RECURSIVE parse_loop(_, _)
parse_loop_step(msgs, it) ==
    IF it.msg # PyNone THEN parse_loop(it.self, Append(msgs, it.msg))
    ELSE [self |-> it.self, msgs |-> msgs, exc |-> it.exc]
parse_loop(self, msgs) == parse_loop_step(msgs, parse_iteration(self))

\* list(parser.parse_messages()): a new generator, drained
parse_messages(self) ==
    IF ~(Len(self.data) > 0) THEN [self |-> self, msgs |-> <<>>, exc |-> "none"]
    ELSE parse_loop(self, <<>>)

\* What one iteration of the loop of parse_messages removes from the buffer:
\* after_length is the parser after the length-prefix step, after_header after
\* the header step, after_content after _read_message_content
iteration_steps(self, after_length, after_header, after_content) ==
    (IF after_length # self
     THEN <<[unit |-> "length", n |-> Len(self.data) - Len(after_length.data)]>> ELSE <<>>)
    \o (IF after_header.self # after_length
        THEN <<[unit |-> "header", n |-> Len(after_length.data) - Len(after_header.self.data)]>>
        ELSE <<>>)
    \o (IF after_content.msg # PyNone
        THEN <<[unit |-> "content", n |-> Len(after_header.self.data) - Len(after_content.self.data)]>>
        ELSE <<>>)

\* the same with the three steps taken from the state before the iteration
iteration_units_of(self, after_length) ==
    iteration_steps(self, after_length,
                    IF ~Truthy(after_length.current_header) THEN read_message_header(after_length)
                    ELSE [self |-> after_length, exc |-> "none"],
                    iteration_header(after_length))

iteration_units(self) ==
    iteration_units_of(self, IF ~Truthy(self.current_header_length)
                             THEN read_protocol_header(self)
                             ELSE self)

\* The units a drain of parse_messages removes, in order
RECURSIVE units_loop(_, _)
units_loop_step(removed, it) ==
    IF it.msg # PyNone THEN units_loop(it.self, removed) ELSE removed
units_loop(self, removed) ==
    units_loop_step(removed \o iteration_units(self), parse_iteration(self))

drain_units(self) ==
    IF ~(Len(self.data) > 0) THEN <<>> ELSE units_loop(self, <<>>)

-----------------------------------------------------------------------------
(* A sender and a parser: frames are encoded and written to a stream, and  *)
(* the stream is read in chunks into a MessageParser, which is drained     *)
(* after each chunk as the read loops of client.py and server.py do.       *)

\* Bounds of the model
MaxFrames == 2
MaxChunkLen == 2

Str_a == <<"a">>
Str_b == <<"b">>
Str_hi == <<"h", "U+E9">>
Str_quote == <<"\"", "\\">>
Name_ping == <<"p", "i", "n", "g">>
Name_test == <<"t", "e", "s", "t">>
Type_x == <<"x">>

\* The messages the sender writes: one of each class, each with a payload
\* that encode() accepts
StreamMessages ==
    {TextMessage(PyStr(Str_hi)),
     CloseMessage,
     JSONMessage(PyDict(<<Item(Str_a, PyInt(1))>>)),
     EventMessage(PyStr(Name_ping), PyStr(Str_a)),
     Message(PyStr(Type_x), PyBytes(<<"a", "xFF">>))}

ParserInit ==
    /\ sent = <<>>
    /\ sentBytes = <<>>
    /\ wire = <<>>
    /\ fed = 0
    /\ parser = NewParser
    /\ yielded = <<>>
    /\ lastDrain = <<>>
    /\ raised = "none"
    /\ feeds = "none"
    /\ pending = FALSE
    /\ units = <<>>

\* socket.sendall(message.encode())
Send(m) ==
    /\ Len(sent) < MaxFrames
    /\ wire' = wire \o encode(m).b
    /\ sentBytes' = sentBytes \o encode(m).b
    /\ sent' = Append(sent, m)
    /\ UNCHANGED <<fed, parser, yielded, lastDrain, raised, feeds, pending, units>>
    /\ UNCHANGED <<codecVars, netVars, clientVars, connVars, supVars>>

\* parser.received_data(chunk), chunk being the next n bytes of the stream
ReceivedData(n) ==
    /\ ~pending
    /\ n >= 1
    /\ n <= Len(wire)
    /\ parser' = received_data(parser, SubSeq(wire, 1, n))
    /\ wire' = SubSeq(wire, n + 1, Len(wire))
    /\ fed' = fed + n
    /\ feeds' = CASE feeds = "none" -> (IF n = 1 THEN "one1" ELSE "oneN")
                  [] feeds \in {"one1", "bytes"} -> (IF n = 1 THEN "bytes" ELSE "mixed")
                  [] OTHER -> "mixed"
    /\ pending' = TRUE
    /\ UNCHANGED <<sent, sentBytes, yielded, lastDrain, raised, units>>
    /\ UNCHANGED <<codecVars, netVars, clientVars, connVars, supVars>>

\* for message in parser.parse_messages(): the generator drained
ParseMessages ==
    /\ pending
    /\ LET r == parse_messages(parser)
       IN  /\ parser' = r.self
           /\ yielded' = yielded \o r.msgs
           /\ lastDrain' = r.msgs
           /\ raised' = r.exc
    /\ units' = units \o drain_units(parser)
    /\ pending' = FALSE
    /\ UNCHANGED <<sent, sentBytes, wire, fed, feeds>>
    /\ UNCHANGED <<codecVars, netVars, clientVars, connVars, supVars>>

ParserNext ==
    \/ \E m \in StreamMessages : Send(m)
    \/ \E n \in (1..MaxChunkLen) \cup {Len(wire)} : ReceivedData(n)
    \/ ParseMessages

-----------------------------------------------------------------------------
(* One message taken through encode() and then through a fresh parser *)

TextPayloads ==
    {PyStr(Str_a), PyStr(Str_hi), PyStr(Str_quote), PyStr(CLOSE_CONTENT),
     PyStr(EVENT_NAME_KEY)}
JsonPayloads ==
    {PyDict(<<Item(Str_a, PyInt(1))>>),
     PyDict(<<Item(Str_a, PyStr(Str_quote)), Item(Str_b, PyNone)>>),
     PyDict(<<Item(Str_a, PyDict(<<Item(Str_b, PyInt(-1))>>))>>),
     PyDict(<<Item(EVENT_NAME_KEY, PyStr(Name_ping))>>),
     PyDict(<<Item(EVENT_MESSAGE_KEY, PyInt(0))>>)}
EventNames == {PyStr(Name_ping), PyStr(Name_test)}
EventPayloads ==
    {PyStr(Str_hi), PyInt(0), PyNone, PyDict(<<Item(Str_a, PyInt(1))>>)}
RawTypes == {PyStr(Type_x), PyStr(<<>>)}
RawPayloads == {PyBytes(<<"a">>), PyBytes(<<"a", "xFF">>), PyBytes(Utf8Encode(CLOSE_CONTENT))}

\* Payloads that are absent or of length zero
EmptyText == {PyNone, PyStr(<<>>)}
EmptyJson == {PyNone, PyDict(<<>>)}
EmptyRaw == {PyNone, PyBytes(<<>>)}

\* Messages of the four supported variants
VariantMessages ==
    {TextMessage(t) : t \in TextPayloads \cup EmptyText}
    \cup {CloseMessage}
    \cup {JSONMessage(j) : j \in JsonPayloads \cup EmptyJson}
    \cup {EventMessage(n, e) : n \in EventNames, e \in EventPayloads}

\* Message(content_type, bytes): a frame of any content-type and payload
RawMessages ==
    {Message(t, r) : t \in RawTypes, r \in RawPayloads \cup EmptyRaw}
    \cup {Message(PyStr(TEXT_PLAIN), PyBytes(Utf8Encode(t.s))) : t \in TextPayloads}
    \cup {Message(PyStr(APPLICATION_JSON), encode_dict(j)) : j \in JsonPayloads}
    \cup {Message(PyStr(APPLICATION_JSON), encoded_message(EventMessage(n, e))) :
              n \in EventNames, e \in EventPayloads}

CodecMessages == VariantMessages \cup RawMessages

Unset == [k |-> "unset"]

CodecInit ==
    /\ original \in CodecMessages
    /\ frame = Unset
    /\ decoded = Unset

CodecIdle ==
    /\ original = CloseMessage
    /\ frame = Unset
    /\ decoded = Unset

\* frame = original.encode()
Encode ==
    /\ frame = Unset
    /\ frame' = encode(original)
    /\ UNCHANGED <<original, decoded>>
    /\ UNCHANGED <<parserVars, netVars, clientVars, connVars, supVars>>

\* parser = MessageParser(); parser.received_data(frame); list(parser.parse_messages())
Decode ==
    /\ frame \notin {Unset, PyNone}
    /\ decoded = Unset
    /\ decoded' = parse_messages(received_data(NewParser, frame.b))
    /\ UNCHANGED <<original, frame>>
    /\ UNCHANGED <<parserVars, netVars, clientVars, connVars, supVars>>

CodecNext ==
    \/ Encode
    \/ Decode

-----------------------------------------------------------------------------
(* A parser reading a stream of any bytes, in chunks *)

\* A frame with payload as its raw bytes under content_type
RawFrame(content_type, payload) == encode(Message(PyStr(content_type), PyBytes(payload))).b

\* A frame that parses: TextMessage('a')
TextFrame == encode(TextMessage(PyStr(Str_a))).b

\* The streams of the model: length prefixes that are no integer, at the start
\* of the stream and after a frame, a length
\* prefix of zero, headers that are the empty object, no JSON or no UTF-8,
\* payloads that are no UTF-8 or no JSON, and a stream that parses
ByteStreams ==
    {<<"a", "b", "c", "d">> \o TextFrame,
     <<"1", "2", "x", "4">> \o TextFrame,
     <<"xFF", "0", "0", "2">> \o TextFrame,
     <<"0", "0", "0", "0">> \o TextFrame,
     <<"0", "0", "0", "2", "{", "}", "{", "}", "{", "}">>,
     <<"0", "0", "0", "2", "{", "x", "a", "b">>,
     <<"0", "0", "0", "2", "xFF", "xFF", "a", "b">>,
     RawFrame(TEXT_PLAIN, <<"a", "xFF">>) \o TextFrame,
     RawFrame(APPLICATION_JSON, <<"{", "x">>) \o TextFrame,
     RawFrame(APPLICATION_JSON, <<"{", "xFF">>) \o TextFrame,
     TextFrame \o <<"a", "b", "c", "d">> \o TextFrame,
     TextFrame \o TextFrame}

BytesInit ==
    /\ sent = <<>>
    /\ wire \in ByteStreams
    /\ sentBytes = wire
    /\ fed = 0
    /\ parser = NewParser
    /\ yielded = <<>>
    /\ lastDrain = <<>>
    /\ raised = "none"
    /\ feeds = "none"
    /\ pending = FALSE
    /\ units = <<>>

BytesNext ==
    \/ \E n \in (1..MaxChunkLen) \cup {Len(wire)} : ReceivedData(n)
    \/ ParseMessages

-----------------------------------------------------------------------------
(* A TCP connection: two byte streams and the two sockets at its ends *)

\* Bounds of the model
MaxPeerFrames == 2
RecvLen == 40

\* No connection yet: the client has not connected
NetInit ==
    /\ c2s = <<>>
    /\ s2c = <<>>
    /\ clientEnd = "none"
    /\ serverEnd = "none"
    /\ peerSent = <<>>

\* socket.sendall(bytes) on an open socket whose other end is peer: what it may
\* raise.  Written to a closed peer, the bytes are lost, and the call returns
\* or raises BrokenPipeError.
SendAllRaises(peer) == IF peer = "closed" THEN {"none", "BrokenPipeError"} ELSE {"none"}
\* The stream after socket.sendall(bytes)
Written(stream, peer, bytes) == IF peer = "closed" THEN stream ELSE stream \o bytes

\* The sizes socket.recv may return with avail bytes buffered: all of them, or
\* a first part
RecvSizes(avail) == {Len(avail)} \cup {n \in {RecvLen} : n < Len(avail)}

-----------------------------------------------------------------------------
(* client.py: SocketClient, driven by the program of test_client.py:       *)
(*   with SocketClient(...) as client:                                     *)
(*       client.send_message(EventMessage('test_event', 'Hello World!'))   *)
(*       for message in client.receive_messages(): logging.info(...)       *)

Name_test_event == <<"t", "e", "s", "t", "_", "e", "v", "e", "n", "t">>
Str_hello == <<"H", "e", "l", "l", "o", " ", "W", "o", "r", "l", "d", "!">>

\* SocketClient.__init__; the caller is about to enter the with block
NewClient ==
    [socket |-> "none", timeout |-> "none", listen_socket |-> TRUE,
     message_parser |-> NewParser, pc |-> "start", exc |-> "none"]

ClientInit ==
    /\ client = NewClient
    /\ delivered = <<>>

\* The client before the with block is entered, in a run without a client
ClientIdle ==
    /\ client = [NewClient EXCEPT !.pc = "absent"]
    /\ delivered = <<>>

\* socket.settimeout(value): the timeout of the socket after the call
settimeout(timeout, value) == value
\* socket.setblocking(flag): the timeout of the socket after the call;
\* setblocking(True) is settimeout(None), setblocking(False) is settimeout(0.0)
setblocking(timeout, flag) == IF flag THEN "none" ELSE "0.0"

\* __enter__ -> start(): socket(), connect(), settimeout(0.1), setblocking(True).
\* setblocking(True) after settimeout puts the socket in blocking mode, with
\* no timeout.
ClientStart ==
    /\ client.pc = "start"
    /\ clientEnd' = "open"
    /\ client' = [client EXCEPT !.socket = "open",
                                !.timeout = setblocking(settimeout(@, "0.1"), TRUE),
                                !.pc = "send"]
    /\ UNCHANGED <<delivered, c2s, s2c, serverEnd, peerSent, connVars, parserVars,
                   codecVars, supVars>>

\* client.send_message(EventMessage('test_event', 'Hello World!')):
\* socket.sendall(message.encode())
ClientSendMessage ==
    /\ client.pc = "send"
    /\ c2s' = Written(c2s, serverEnd,
                      encode(EventMessage(PyStr(Name_test_event), PyStr(Str_hello))).b)
    /\ \E exc \in SendAllRaises(serverEnd) :
           client' = [client EXCEPT !.pc = IF exc = "none" THEN "while" ELSE "raised",
                                    !.exc = exc]
    /\ UNCHANGED <<delivered, s2c, clientEnd, serverEnd, peerSent, connVars,
                   parserVars, codecVars, supVars>>

\* receive_messages: while self._listen_socket
ClientWhile ==
    /\ client.pc = "while"
    /\ client' = [client EXCEPT !.pc = IF client.listen_socket THEN "recv" ELSE "exit"]
    /\ UNCHANGED <<delivered, netVars, connVars, parserVars, codecVars, supVars>>

\* The for loop of receive_messages over parse_messages(), from inside the
\* generator's loop: [self, out, closed, exc].  out: the messages yielded to
\* the caller; closed: a CloseMessage was met, close(terminate=True) called
\* and the loop left.
RECURSIVE client_for_loop(_, _)
client_for_step(out, it) ==
    IF it.msg = PyNone
    THEN [self |-> it.self, out |-> out, closed |-> FALSE, exc |-> it.exc]
    ELSE IF IsCloseMessage(it.msg)
    THEN [self |-> it.self, out |-> out, closed |-> TRUE, exc |-> "none"]
    ELSE client_for_loop(it.self, Append(out, it.msg))
client_for_loop(self, out) == client_for_step(out, parse_iteration(self))

client_for(self) ==
    IF ~(Len(self.data) > 0)
    THEN [self |-> self, out |-> <<>>, closed |-> FALSE, exc |-> "none"]
    ELSE client_for_loop(self, <<>>)

\* The body of the while loop of receive_messages once recv returned new_data:
\* after is the program counter when nothing is raised and the loop is not left
ClientReceived(new_data, after) ==
    LET r == client_for(received_data(client.message_parser, new_data))
    IN  /\ delivered' = delivered \o r.out
        /\ IF r.exc # "none"
           THEN /\ client' = [client EXCEPT !.message_parser = r.self,
                                            !.pc = "raised", !.exc = r.exc]
                /\ UNCHANGED clientEnd
           ELSE IF r.closed
           THEN /\ client' = [client EXCEPT !.message_parser = r.self,
                                            !.listen_socket = FALSE,
                                            !.socket = "none", !.pc = "while"]
                /\ clientEnd' = "closed"
           ELSE /\ client' = [client EXCEPT !.message_parser = r.self, !.pc = after]
                /\ UNCHANGED clientEnd

\* new_data = self.socket.recv(65536), with bytes buffered
ClientRecv(n) ==
    /\ client.pc = "recv"
    /\ n >= 1
    /\ n <= Len(s2c)
    /\ s2c' = SubSeq(s2c, n + 1, Len(s2c))
    /\ ClientReceived(SubSeq(s2c, 1, n), "while")
    /\ UNCHANGED <<c2s, serverEnd, peerSent, connVars, parserVars, codecVars, supVars>>

\* new_data = self.socket.recv(65536) = b'': the peer has closed and nothing
\* is buffered; then time.sleep(0.1)
ClientRecvEof ==
    /\ client.pc = "recv"
    /\ s2c = <<>>
    /\ serverEnd = "closed"
    /\ ClientReceived(<<>>, "sleep")
    /\ UNCHANGED <<c2s, s2c, serverEnd, peerSent, connVars, parserVars, codecVars, supVars>>

\* new_data = self.socket.recv(65536) with nothing buffered and the peer
\* not closed: with a timeout, recv raises socket.timeout and the loop goes
\* on at its test; with none, recv does not return
ClientRecvNoData ==
    /\ client.pc = "recv"
    /\ s2c = <<>>
    /\ serverEnd # "closed"
    /\ client' = IF client.timeout = "none" THEN client
                 ELSE [client EXCEPT !.pc = "while"]
    /\ UNCHANGED <<delivered, netVars, connVars, parserVars, codecVars, supVars>>

\* close(terminate): whether a CloseMessage is sent before the socket is
\* closed; not the mutant
client_close_sends_always(terminate) == TRUE
client_close_sends(terminate) == ~terminate

\* The errors of the transport that recv may raise: socket.error that is no
\* socket.timeout
SocketErrors == {"ConnectionResetError"}

\* self.socket.recv(65536) raises exc, a socket.error:
\* self.close(terminate=True), then raise exc
ClientRecvError(exc) ==
    /\ client.pc = "recv"
    /\ IF client.socket = "none"
       THEN /\ client' = [client EXCEPT !.pc = "raised", !.exc = exc]
            /\ UNCHANGED <<c2s, clientEnd>>
       ELSE /\ c2s' = IF client_close_sends(TRUE)
                      THEN Written(c2s, serverEnd, encode(CloseMessage).b)
                      ELSE c2s
            /\ clientEnd' = "closed"
            /\ client' = [client EXCEPT !.listen_socket = FALSE, !.socket = "none",
                                        !.pc = "raised", !.exc = exc]
    /\ UNCHANGED <<delivered, s2c, serverEnd, peerSent, connVars, parserVars,
                   codecVars, supVars>>

\* time.sleep(0.1) returns
ClientSleep ==
    /\ client.pc = "sleep"
    /\ client' = [client EXCEPT !.pc = "while"]
    /\ UNCHANGED <<delivered, netVars, connVars, parserVars, codecVars, supVars>>

\* __exit__ -> close(): nothing with the socket already None; otherwise a
\* CloseMessage is sent, its failure ignored, and the socket closed.  The
\* with block was left by the end of the loop or by an exception.
ClientExit ==
    /\ client.pc \in {"exit", "raised"}
    /\ IF client.socket = "none"
       THEN UNCHANGED <<c2s, clientEnd>>
       ELSE /\ c2s' = Written(c2s, serverEnd, encode(CloseMessage).b)
            /\ clientEnd' = "closed"
    /\ client' = [client EXCEPT !.listen_socket = (client.socket = "none" /\ @),
                                !.socket = "none",
                                !.pc = IF client.pc = "exit" THEN "done" ELSE "failed"]
    /\ UNCHANGED <<delivered, s2c, serverEnd, peerSent, connVars, parserVars, codecVars, supVars>>

\* KeyboardInterrupt is raised in the caller inside the with block, by a
\* signal from outside: it is no socket.error, and leaves the with block
ClientInterrupt ==
    /\ client.pc \in {"send", "while", "recv", "sleep"}
    /\ client' = [client EXCEPT !.pc = "raised", !.exc = "KeyboardInterrupt"]
    /\ UNCHANGED <<delivered, netVars, connVars, parserVars, codecVars, supVars>>

ClientNext ==
    \/ ClientStart
    \/ ClientSendMessage
    \/ ClientWhile
    \/ \E n \in RecvSizes(s2c) : ClientRecv(n)
    \/ ClientRecvEof
    \/ ClientRecvNoData
    \/ ClientSleep
    \/ ClientExit

\* The messages a scripted server end writes to the client
ServerPeerMessages ==
    {TextMessage(PyStr(Str_hi)),
     CloseMessage,
     JSONMessage(PyDict(<<Item(Str_a, PyInt(1))>>)),
     EventMessage(PyStr(Name_ping), PyStr(Str_a))}

\* The server end writes the frame of m
ServerPeerSend(m) ==
    /\ serverEnd = "open"
    /\ clientEnd = "open"
    /\ Len(peerSent) < MaxPeerFrames
    /\ s2c' = s2c \o encode(m).b
    /\ peerSent' = Append(peerSent, m)
    /\ UNCHANGED <<c2s, clientEnd, serverEnd, clientVars, connVars, parserVars, codecVars, supVars>>

\* The server end accepts the connection of the client
ServerPeerAccept ==
    /\ serverEnd = "none"
    /\ clientEnd # "none"
    /\ serverEnd' = "open"
    /\ UNCHANGED <<c2s, s2c, clientEnd, peerSent, clientVars, connVars, parserVars,
                   codecVars, supVars>>

\* The server end closes its socket
ServerPeerClose ==
    /\ serverEnd = "open"
    /\ serverEnd' = "closed"
    /\ UNCHANGED <<c2s, s2c, clientEnd, peerSent, clientVars, connVars, parserVars,
                   codecVars, supVars>>

-----------------------------------------------------------------------------
(* server.py: the registry of SocketServer, a _SocketWorkerProcess and one  *)
(* _SocketConnectionHandlerThread.  A handler is user code: it is modelled  *)
(* by the set of results a call of it may give.                             *)

Handler(returns) == [k |-> "function", returns |-> returns]
Generator(values) == [k |-> "generator", values |-> values]

\* SocketServer.__init__: self._handlers
NoHandlers == [text |-> PyNone, json |-> PyNone, event |-> PyDict(<<>>)]
\* SocketServer.text_handler(handler)
text_handler(registry, handler) == [registry EXCEPT !.text = handler]
\* SocketServer.json_handler(handler)
json_handler(registry, handler) == [registry EXCEPT !.json = handler]
\* SocketServer.event_handler(event_name)(handler)
event_handler(registry, event_name, handler) ==
    [registry EXCEPT !.event = PyDict(SetKey(@.items, event_name, handler))]

\* isinstance(value, Message)
IsMessageObject(value) == "cls" \in DOMAIN value
\* isinstance(value, CloseMessage), for any value
IsCloseResult(value) == IsMessageObject(value) /\ IsCloseMessage(value)
\* bool(value), for the result of a handler
ResultTruthy(value) ==
    IF IsMessageObject(value) THEN TRUE
    ELSE IF value.k \in {"generator", "function"} THEN TRUE
    ELSE Truthy(value)

\* str(result), for the values a handler gives
PyStrOf(result) ==
    CASE result.k = "str" -> result.s
      [] result.k = "int" -> IntToStr(result.n)

\* _SocketConnectionHandlerThread._map_result_to_message(result)
map_result_to_message(result) ==
    IF ~ResultTruthy(result) THEN PyNone
    ELSE IF IsMessageObject(result) THEN result
    ELSE IF result.k = "dict" THEN JSONMessage(result)
    ELSE TextMessage(PyStr(PyStrOf(result)))

\* _SocketConnectionHandlerThread.send(message) with client_socket sock and
\* the other end peer: the outcomes [exc, sent]; sent: sendall took the frame
send(sock, peer, message) ==
    IF ~ResultTruthy(message) THEN {[exc |-> "none", sent |-> FALSE]}
    ELSE IF sock = "none" THEN {[exc |-> "AttributeError", sent |-> FALSE]}
    ELSE IF ~Truthy(encode(message)) THEN {[exc |-> "TypeError", sent |-> FALSE]}
    ELSE {[exc |-> exc, sent |-> exc = "none"] : exc \in SendAllRaises(peer)}

\* close(terminate): whether a CloseMessage is sent first; not the mutant
close_sends_never(terminate) == FALSE
close_sends(terminate) == ~terminate

\* message.event_name in self.handlers['event']: [exc, found]
event_name_in(event_name, event_handlers) ==
    IF event_name.k = "dict" THEN [exc |-> "TypeError", found |-> FALSE]
    ELSE [exc |-> "none",
          found |-> event_name.k = "str" /\ HasKey(event_handlers.items, event_name.s)]

\* EventMessage.event_name
event_name(message) == GetKey(message.message.items, EVENT_NAME_KEY)

Selected(slot, name, fn) == [kind |-> "handler", slot |-> slot, name |-> name, fn |-> fn]
NotSelected(kind) == [kind |-> kind, slot |-> "none", name |-> PyNone, fn |-> PyNone]

\* the branches of the loop body of run for an EventMessage, with the result
\* of the test of its name
select_event_handler(message, registry, registered) ==
    IF registered.exc # "none" THEN NotSelected("raise")
    ELSE IF registered.found
    THEN Selected("event", event_name(message),
                  GetKey(registry.event.items, event_name(message).s))
    ELSE IF ResultTruthy(registry.json) THEN Selected("json", PyNone, registry.json)
    ELSE NotSelected("none")

\* the same with the JSON handler tested before the event handlers; not the
\* code
select_handler_json_first(message, registry) ==
    IF IsCloseMessage(message) THEN NotSelected("close")
    ELSE IF IsJSONMessage(message) /\ ResultTruthy(registry.json)
    THEN Selected("json", PyNone, registry.json)
    ELSE IF IsEventMessage(message)
    THEN select_event_handler(message, registry,
                              event_name_in(event_name(message), registry.event))
    ELSE IF IsTextMessage(message) /\ ResultTruthy(registry.text)
    THEN Selected("text", PyNone, registry.text)
    ELSE NotSelected("none")

\* the same with the text handler called for a message no branch takes; not
\* the code
select_handler_text_fallback(message, registry) ==
    IF IsCloseMessage(message) THEN NotSelected("close")
    ELSE IF IsEventMessage(message)
    THEN select_event_handler(message, registry,
                              event_name_in(event_name(message), registry.event))
    ELSE IF IsJSONMessage(message) /\ ResultTruthy(registry.json)
    THEN Selected("json", PyNone, registry.json)
    ELSE IF ResultTruthy(registry.text) THEN Selected("text", PyNone, registry.text)
    ELSE NotSelected("none")

\* The if/elif chain of the loop body of run: what is done with message.
\* kind "close": close(terminate=True) and break; "handler": the handler fn
\* is passed to _handle_received_message; "none": the warning; "raise": the
\* test raised.
select_handler(message, registry) ==
    IF IsCloseMessage(message) THEN NotSelected("close")
    ELSE IF IsEventMessage(message)
    THEN select_event_handler(message, registry,
                              event_name_in(event_name(message), registry.event))
    ELSE IF IsTextMessage(message) /\ ResultTruthy(registry.text)
    THEN Selected("text", PyNone, registry.text)
    ELSE IF IsJSONMessage(message) /\ ResultTruthy(registry.json)
    THEN Selected("json", PyNone, registry.json)
    ELSE NotSelected("none")

\* _SocketWorkerProcess.__init__ and run up to the accept loop
NewWorker == [pc |-> "accept", kill_event |-> FALSE]

\* _SocketConnectionHandlerThread.__init__, the thread started
NewThread(client_socket) ==
    [client_socket |-> client_socket, timeout |-> "none", listen_socket |-> TRUE,
     message_parser |-> NewParser, pc |-> "run", new_data |-> 0,
     message |-> PyNone, dispatched |-> 0, selected |-> NotSelected("none"),
     gen |-> <<>>, results |-> <<>>, last |-> "none", closed_at |-> 0,
     exc |-> "none"]

\* No thread: no connection accepted yet
NoThread == [NewThread("none") EXCEPT !.pc = "absent"]

\* The results the handlers of the model may give
HandlerResults ==
    {PyNone,
     CloseMessage,
     PyDict(<<Item(Str_a, PyInt(1))>>),
     Generator(<<PyStr(Str_a), CloseMessage, PyDict(<<Item(Str_b, PyInt(2))>>)>>)}

\* The registries of the model: a handler of event ping, and each of the
\* text handler and the JSON handler registered or not
Registries ==
    {event_handler([NoHandlers EXCEPT !.text = t, !.json = j], Name_ping,
                   Handler(HandlerResults)) :
        t \in {PyNone, Handler(HandlerResults)},
        j \in {PyNone, Handler(HandlerResults)}}

\* test_server.py: the handler of test_event returns CloseMessage()
TestServerRegistry ==
    event_handler(NoHandlers, Name_test_event, Handler({CloseMessage}))
\* the same with a handler that yields the CloseMessage
TestServerYieldRegistry ==
    event_handler(NoHandlers, Name_test_event, Handler({Generator(<<CloseMessage>>)}))

\* Values of every kind that a handler may give: None, integers, strings and
\* dicts that are falsy or not, a Message, a CloseMessage, and a generator of
\* such values
ValueResults ==
    {PyNone,
     PyInt(0),
     PyInt(7),
     PyStr(<<>>),
     PyStr(Str_a),
     PyDict(<<>>),
     PyDict(<<Item(Str_a, PyInt(1))>>),
     TextMessage(PyStr(Str_b)),
     CloseMessage,
     Generator(<<PyInt(7), PyInt(0), PyDict(<<>>)>>),
     Generator(<<PyDict(<<Item(Str_b, PyInt(2))>>), PyNone, PyStr(<<>>), PyStr(Str_a)>>)}

\* A text handler that gives these values
ValueRegistry == text_handler(NoHandlers, Handler(ValueResults))

ServerInit(registries) ==
    /\ handlers \in registries
    /\ worker = NewWorker
    /\ conn = NoThread
    /\ invoked = <<>>
    /\ wrote = <<>>

\* A run without a server
ServerIdle ==
    /\ handlers = NoHandlers
    /\ worker = [NewWorker EXCEPT !.pc = "absent"]
    /\ conn = NoThread
    /\ invoked = <<>>
    /\ wrote = <<>>

\* _SocketWorkerProcess.run: sock.accept() returns the connection of the
\* client, and the thread of the connection is started
WorkerAccept ==
    /\ worker.pc = "accept"
    /\ serverEnd = "none"
    /\ clientEnd # "none"
    /\ serverEnd' = "open"
    /\ conn' = NewThread("open")
    /\ UNCHANGED <<c2s, s2c, clientEnd, peerSent, handlers, worker, invoked, wrote,
                   clientVars, parserVars, codecVars, supVars>>

\* run: self.client_socket.settimeout(0.1)
ConnRun ==
    /\ conn.pc = "run"
    /\ conn' = [conn EXCEPT !.timeout = "0.1", !.pc = "while"]
    /\ UNCHANGED <<netVars, handlers, worker, invoked, wrote, clientVars, parserVars,
                   codecVars, supVars>>

\* run: while not self.kill_event.is_set() and self._listen_socket
ConnListening == ~worker.kill_event /\ conn.listen_socket

\* run: the loop is left and the thread ends
ConnExit ==
    /\ conn.pc = "while"
    /\ ~ConnListening
    /\ conn' = [conn EXCEPT !.pc = "exit"]
    /\ UNCHANGED <<netVars, handlers, worker, invoked, wrote, clientVars, parserVars,
                   codecVars, supVars>>

\* run: the end of the loop body: if len(new_data) == 0: time.sleep(0.1)
ConnAfter(new_data) == IF new_data = 0 THEN "sleep" ELSE "while"

\* run: recv returned new_data; received_data(new_data), and the generator
\* parse_messages() is made and entered: it ends at once with no data
ConnReceived(new_data) ==
    LET self == received_data(conn.message_parser, new_data)
    IN  conn' = [conn EXCEPT !.message_parser = self,
                             !.new_data = Len(new_data),
                             !.pc = IF Len(self.data) > 0 THEN "for"
                                    ELSE ConnAfter(Len(new_data))]

\* new_data = self.client_socket.recv(65536), with bytes buffered
ConnRecv(n) ==
    /\ conn.pc = "while"
    /\ ConnListening
    /\ n >= 1
    /\ n <= Len(c2s)
    /\ c2s' = SubSeq(c2s, n + 1, Len(c2s))
    /\ ConnReceived(SubSeq(c2s, 1, n))
    /\ UNCHANGED <<s2c, clientEnd, serverEnd, peerSent, handlers, worker, invoked,
                   wrote, clientVars, parserVars, codecVars, supVars>>

\* new_data = self.client_socket.recv(65536) = b'': the client has closed and
\* nothing is buffered
ConnRecvEof ==
    /\ conn.pc = "while"
    /\ ConnListening
    /\ c2s = <<>>
    /\ clientEnd = "closed"
    /\ ConnReceived(<<>>)
    /\ UNCHANGED <<netVars, handlers, worker, invoked, wrote, clientVars, parserVars,
                   codecVars, supVars>>

\* recv raises socket.timeout after 0.1 s without data: continue
ConnRecvTimeout ==
    /\ conn.pc = "while"
    /\ ConnListening
    /\ conn.timeout # "none"
    /\ c2s = <<>>
    /\ clientEnd = "open"
    /\ conn' = conn
    /\ UNCHANGED <<netVars, handlers, worker, invoked, wrote, clientVars, parserVars,
                   codecVars, supVars>>

\* close(terminate) called with the other fields of the thread as in after:
\* nothing with client_socket None; otherwise send(CloseMessage()) unless
\* terminate, whatever it raises ignored, and the socket closed
ConnClose(terminate, after, written) ==
    IF after.client_socket = "none"
    THEN /\ conn' = after
         /\ wrote' = written
         /\ UNCHANGED <<s2c, serverEnd>>
    ELSE \E o \in (IF close_sends(terminate)
                   THEN send(after.client_socket, clientEnd, CloseMessage)
                   ELSE {[exc |-> "none", sent |-> FALSE]}) :
            /\ wrote' = IF o.sent THEN Append(written, CloseMessage) ELSE written
            /\ s2c' = IF o.sent THEN Written(s2c, clientEnd, encode(CloseMessage).b)
                      ELSE s2c
            /\ serverEnd' = "closed"
            /\ conn' = [after EXCEPT !.listen_socket = FALSE, !.client_socket = "none",
                                     !.closed_at = after.dispatched]

\* self.send(self._map_result_to_message(result)), the thread going on as in
\* after when nothing is raised
ConnSend(message, after) ==
    \E o \in send(conn.client_socket, clientEnd, message) :
        /\ wrote' = IF o.sent THEN Append(wrote, message) ELSE wrote
        /\ s2c' = IF o.sent THEN Written(s2c, clientEnd, encode(message).b) ELSE s2c
        /\ conn' = IF o.exc = "none"
                   THEN [after EXCEPT !.last = IF o.sent THEN "sent" ELSE "dropped"]
                   ELSE [after EXCEPT !.pc = "crashed", !.exc = o.exc, !.last = "raised"]
        /\ UNCHANGED serverEnd

\* run: the next message of parse_messages() and the if/elif chain on it
ConnDispatch(it, selected) ==
    LET taken == [conn EXCEPT !.message_parser = it.self, !.message = it.msg,
                              !.dispatched = @ + 1, !.selected = selected,
                              !.gen = <<>>, !.results = <<>>, !.last = "none"]
    IN  /\ invoked' = <<>>
        /\ CASE selected.kind = "close" ->
                    ConnClose(TRUE, [taken EXCEPT !.pc = ConnAfter(conn.new_data),
                                                  !.message = PyNone], <<>>)
             [] selected.kind = "handler" ->
                    /\ conn' = [taken EXCEPT !.pc = "call"]
                    /\ wrote' = <<>>
                    /\ UNCHANGED <<s2c, serverEnd>>
             [] selected.kind = "none" ->
                    /\ conn' = [taken EXCEPT !.pc = "for"]
                    /\ wrote' = <<>>
                    /\ UNCHANGED <<s2c, serverEnd>>
             [] selected.kind = "raise" ->
                    /\ conn' = [taken EXCEPT !.pc = "crashed", !.exc = "TypeError"]
                    /\ wrote' = <<>>
                    /\ UNCHANGED <<s2c, serverEnd>>

\* run: for message in self.message_parser.parse_messages(): one more turn of
\* the generator
ConnNextMessage ==
    /\ conn.pc = "for"
    /\ LET it == parse_iteration(conn.message_parser)
       IN  IF it.msg = PyNone
           THEN /\ conn' = [conn EXCEPT !.message_parser = it.self,
                                        !.message = PyNone,
                                        !.pc = IF it.exc = "none"
                                               THEN ConnAfter(conn.new_data)
                                               ELSE "crashed",
                                        !.exc = it.exc]
                /\ UNCHANGED <<s2c, serverEnd, invoked, wrote>>
           ELSE ConnDispatch(it, select_handler(it.msg, handlers))
    /\ UNCHANGED <<c2s, clientEnd, peerSent, handlers, worker, clientVars, parserVars,
                   codecVars, supVars>>

\* _handle_received_message: one value of the handler, not a generator:
\* a CloseMessage closes, any other value is sent.  results is the values
\* the handler has given for the message.
ConnHandleValue(result, after) ==
    IF IsCloseResult(result)
    THEN ConnClose(FALSE, [after EXCEPT !.pc = "for", !.gen = <<>>, !.last = "close",
                                        !.results = Append(@, result)],
                   wrote)
    ELSE ConnSend(map_result_to_message(result),
                  [after EXCEPT !.results = Append(@, result)])

\* _handle_received_message: handler_result = handler(message) and what
\* follows, up to the first value of a generator
ConnCalled(handler_result) ==
    IF ~ResultTruthy(handler_result)
    THEN /\ conn' = [conn EXCEPT !.pc = "for", !.last = "dropped",
                                 !.results = Append(@, handler_result)]
         /\ UNCHANGED <<s2c, serverEnd, wrote>>
    ELSE IF ~IsMessageObject(handler_result) /\ handler_result.k = "generator"
    THEN /\ conn' = [conn EXCEPT !.pc = "gen", !.gen = handler_result.values]
         /\ UNCHANGED <<s2c, serverEnd, wrote>>
    ELSE ConnHandleValue(handler_result, [conn EXCEPT !.pc = "for"])

ConnCall ==
    /\ conn.pc = "call"
    /\ invoked' = Append(invoked, [slot |-> conn.selected.slot,
                                   name |-> conn.selected.name])
    /\ \E handler_result \in conn.selected.fn.returns : ConnCalled(handler_result)
    /\ UNCHANGED <<c2s, clientEnd, peerSent, handlers, worker, clientVars, parserVars,
                   codecVars, supVars>>

\* _handle_received_message: for result in handler_result: one more value of
\* the generator, or its end
ConnGenNext ==
    /\ conn.pc = "gen"
    /\ IF conn.gen = <<>>
       THEN /\ conn' = [conn EXCEPT !.pc = "for"]
            /\ UNCHANGED <<s2c, serverEnd, wrote>>
       ELSE ConnHandleValue(Head(conn.gen), [conn EXCEPT !.gen = Tail(conn.gen)])
    /\ UNCHANGED <<c2s, clientEnd, peerSent, handlers, worker, invoked, clientVars,
                   parserVars, codecVars, supVars>>

\* time.sleep(0.1) returns
ConnSleep ==
    /\ conn.pc = "sleep"
    /\ conn' = [conn EXCEPT !.pc = "while"]
    /\ UNCHANGED <<netVars, handlers, worker, invoked, wrote, clientVars, parserVars,
                   codecVars, supVars>>

\* _SocketWorkerProcess._handle_terminate_signal: sys.exit(1) in the main
\* thread of the worker, which accepts no more; the threads of the
\* connections are not daemons and run on
WorkerTerminateSignal ==
    /\ worker.pc = "accept"
    /\ worker' = [worker EXCEPT !.pc = "exit"]
    /\ UNCHANGED <<netVars, handlers, conn, invoked, wrote, clientVars, parserVars,
                   codecVars, supVars>>

ServerNext ==
    \/ WorkerAccept
    \/ ConnRun
    \/ ConnExit
    \/ \E n \in RecvSizes(c2s) : ConnRecv(n)
    \/ ConnRecvEof
    \/ ConnRecvTimeout
    \/ ConnNextMessage
    \/ ConnCall
    \/ ConnGenNext
    \/ ConnSleep

\* The messages a scripted client end writes to the server
ClientPeerMessages ==
    {TextMessage(PyStr(Str_a)),
     CloseMessage,
     JSONMessage(PyDict(<<Item(Str_a, PyInt(1))>>)),
     EventMessage(PyStr(Name_ping), PyStr(Str_a)),
     EventMessage(PyStr(Name_test), PyStr(Str_a))}

\* The client end connects
ClientPeerConnect ==
    /\ clientEnd = "none"
    /\ clientEnd' = "open"
    /\ UNCHANGED <<c2s, s2c, serverEnd, peerSent, clientVars, connVars, parserVars,
                   codecVars, supVars>>

\* The client end writes the frame of m
ClientPeerSend(m) ==
    /\ clientEnd = "open"
    /\ Len(peerSent) < MaxPeerFrames
    /\ c2s' = Written(c2s, serverEnd, encode(m).b)
    /\ peerSent' = Append(peerSent, m)
    /\ UNCHANGED <<s2c, clientEnd, serverEnd, clientVars, connVars, parserVars, codecVars, supVars>>

\* The client end closes its socket
ClientPeerClose ==
    /\ clientEnd = "open"
    /\ clientEnd' = "closed"
    /\ UNCHANGED <<c2s, s2c, serverEnd, peerSent, clientVars, connVars, parserVars,
                   codecVars, supVars>>

-----------------------------------------------------------------------------
(* server.py: SocketServer, the supervisor of the worker processes.  A     *)
(* process is named by its index in procs; 0 is None.  The slots of        *)
(* _workers are numbered from 1.                                           *)

\* Bounds of the model
WorkersQuantity == 2
MaxCrashes == 2

Address == <<"127.0.0.1", 5564>>
SOCKET_SERVER_TCP == "tcp"

\* _SocketWorkerProcess(address, socket_type, handlers, on_startup, name=...)
NewProcess(address, socket_type, registry) ==
    [address |-> address, socket_type |-> socket_type, handlers |-> registry,
     daemon |-> FALSE, state |-> "initial", sigterm |-> FALSE, joined |-> "no",
     crashed |-> FALSE]

\* Process.is_alive()
is_alive(process) == process.state = "alive"

\* Process.terminate(): SIGTERM to a process that runs
process_terminate(process) ==
    IF is_alive(process) THEN [process EXCEPT !.sigterm = TRUE] ELSE process

\* Process.join(timeout=1.0)
process_join(process) == [process EXCEPT !.joined = "timeout"]

\* SocketServer.__init__
NewSocketServer(registry) ==
    [address |-> Address, socket_type |-> SOCKET_SERVER_TCP, handlers |-> registry,
     workers |-> [slot \in 1..WorkersQuantity |-> 0],
     pc |-> "start", worker_id |-> 0, worker_process |-> 0]

SupervisorInit(registry) ==
    /\ supervisor = NewSocketServer(registry)
    /\ procs = <<>>

\* A run without a supervisor
SupervisorIdle ==
    /\ supervisor = [NewSocketServer(NoHandlers) EXCEPT !.pc = "absent"]
    /\ procs = <<>>

\* start(): the signal handlers are set and the monitoring loop is entered
SupervisorStart ==
    /\ supervisor.pc = "start"
    /\ supervisor' = [supervisor EXCEPT !.pc = "for", !.worker_id = 1]
    /\ UNCHANGED <<procs, parserVars, codecVars, netVars, clientVars, connVars>>

\* start(): if not worker or not worker.is_alive(), only for a slot that
\* holds no live worker
needs_worker_never(process, processes) == process = 0
needs_worker(process, processes) == process = 0 \/ ~is_alive(processes[process])

\* start(): one turn of for worker_id, worker in enumerate(self._workers),
\* up to the call of _start_worker_process, or the end of the pass
SupervisorFor ==
    /\ supervisor.pc = "for"
    /\ supervisor' =
           IF supervisor.worker_id > WorkersQuantity
           THEN [supervisor EXCEPT !.pc = "sleep"]
           ELSE IF needs_worker(supervisor.workers[supervisor.worker_id], procs)
           THEN [supervisor EXCEPT !.pc = "start_worker"]
           ELSE [supervisor EXCEPT !.worker_id = @ + 1]
    /\ UNCHANGED <<procs, parserVars, codecVars, netVars, clientVars, connVars>>

\* _start_worker_process: the _SocketWorkerProcess constructed
worker_process_of(self) ==
    NewProcess(self.address, self.socket_type, self.handlers)

\* _start_worker_process up to worker_process.start(): the process the slot
\* holds is sent SIGTERM, the new one is constructed, made a daemon and started
SupervisorStartWorker ==
    /\ supervisor.pc = "start_worker"
    /\ LET old == supervisor.workers[supervisor.worker_id]
           terminated == [i \in DOMAIN procs |->
                             IF i = old THEN process_terminate(procs[i]) ELSE procs[i]]
       IN  procs' = Append(terminated,
                           [worker_process_of(supervisor) EXCEPT !.daemon = TRUE,
                                                                 !.state = "alive"])
    /\ supervisor' = [supervisor EXCEPT !.pc = "record",
                                        !.worker_process = Len(procs) + 1]
    /\ UNCHANGED <<parserVars, codecVars, netVars, clientVars, connVars>>

\* _start_worker_process: self._workers[worker_id] = worker_process
SupervisorRecordWorker ==
    /\ supervisor.pc = "record"
    /\ supervisor' = [supervisor EXCEPT
                          !.workers[supervisor.worker_id] = supervisor.worker_process,
                          !.worker_process = 0,
                          !.worker_id = @ + 1,
                          !.pc = "for"]
    /\ UNCHANGED <<procs, parserVars, codecVars, netVars, clientVars, connVars>>

\* start(): time.sleep(1) returns and the next pass begins
SupervisorSleep ==
    /\ supervisor.pc = "sleep"
    /\ supervisor' = [supervisor EXCEPT !.pc = "for", !.worker_id = 1]
    /\ UNCHANGED <<procs, parserVars, codecVars, netVars, clientVars, connVars>>

\* SocketServer.close(): every worker of the table is sent SIGTERM and joined
\* for at most one second
server_close(self, processes) ==
    [i \in DOMAIN processes |->
        IF \E slot \in DOMAIN self.workers : self.workers[slot] = i
        THEN process_join(process_terminate(processes[i]))
        ELSE processes[i]]

\* SIGINT or SIGTERM arrives while start() runs: _handle_terminate_signal is
\* called between two instructions of the main thread and calls close()
SupervisorTerminateSignal ==
    /\ supervisor.pc \in {"for", "start_worker", "record", "sleep"}
    /\ procs' = server_close(supervisor, procs)
    /\ supervisor' = [supervisor EXCEPT !.pc = "exiting"]
    /\ UNCHANGED <<parserVars, codecVars, netVars, clientVars, connVars>>

\* The exit of the interpreter after sys.exit(1): multiprocessing sends
\* SIGTERM to the children that are daemons and still run, and joins every
\* running child without a timeout
exit_function(processes) ==
    [i \in DOMAIN processes |->
        IF is_alive(processes[i])
        THEN [processes[i] EXCEPT
                  !.sigterm = @ \/ processes[i].daemon,
                  !.joined = IF @ = "no" THEN "exit" ELSE @,
                  !.state = "dead"]
        ELSE processes[i]]

\* _handle_terminate_signal: sys.exit(1)
SupervisorExit ==
    /\ supervisor.pc = "exiting"
    /\ procs' = exit_function(procs)
    /\ supervisor' = [supervisor EXCEPT !.pc = "exited"]
    /\ UNCHANGED <<parserVars, codecVars, netVars, clientVars, connVars>>

\* the number of worker processes that ended without a SIGTERM
Crashes == Cardinality({i \in DOMAIN procs : procs[i].crashed})

\* The worker process i ends: after the SIGTERM it was sent, or by itself
WorkerProcessEnds(i) ==
    /\ supervisor.pc # "exited"
    /\ is_alive(procs[i])
    /\ procs[i].sigterm \/ Crashes < MaxCrashes
    /\ procs' = [procs EXCEPT ![i].state = "dead", ![i].crashed = ~procs[i].sigterm]
    /\ UNCHANGED <<supervisor, parserVars, codecVars, netVars, clientVars, connVars>>

SupervisorNext ==
    \/ SupervisorStart
    \/ SupervisorFor
    \/ SupervisorStartWorker
    \/ SupervisorRecordWorker
    \/ SupervisorSleep
    \/ SupervisorTerminateSignal
    \/ SupervisorExit
    \/ \E i \in DOMAIN procs : WorkerProcessEnds(i)

-----------------------------------------------------------------------------
(* Properties of the sender and the parser (specification Spec) *)

FrameLen(m) == Len(encode(m).b)

\* What a fresh parser yields for the frame of m alone
DecodingOf(m) == parse_messages(received_data(NewParser, encode(m).b)).msgs

-----------------------------------------------------------------------------
(* Properties of encode() and decoding (specification SpecCodec) *)

IsEmptyPayload(v) == v \in {PyNone, PyStr(<<>>), PyBytes(<<>>), PyDict(<<>>)}

\* C3: Round-trip.  For a message of a supported variant (TextMessage,
\* JSONMessage, EventMessage, CloseMessage), a fresh parser fed the bytes of
\* encode() yields exactly one message, of the same variant and with an equal
\* payload.
C3_RoundTrip ==
    (original \in VariantMessages /\ decoded # Unset) =>
        /\ decoded.exc = "none"
        /\ decoded.msgs = <<original>>

\* The class the frame of a message is to decode to, by its content-type and
\* payload
ExpectedClass(m) ==
    IF m.content_type = PyStr(TEXT_PLAIN)
    THEN (IF encoded_message(m).b = Utf8Encode(CLOSE_CONTENT) THEN "CloseMessage"
          ELSE "TextMessage")
    ELSE IF m.content_type = PyStr(APPLICATION_JSON)
    THEN (IF /\ HasKey(decode_dict(encoded_message(m).b).val.items, EVENT_NAME_KEY)
             /\ HasKey(decode_dict(encoded_message(m).b).val.items, EVENT_MESSAGE_KEY)
          THEN "EventMessage"
          ELSE "JSONMessage")
    ELSE "Message"

\* C4: Variant selection.  A completed frame makes the parser emit one message
\* whose class follows from the content-type and the payload: text/plain a
\* TextMessage, a CloseMessage when the payload is the sentinel; application/json
\* a JSONMessage, an EventMessage when the object holds event_name and
\* event_message; any other content-type a Message holding the raw payload.
C4_VariantSelection ==
    decoded # Unset =>
        /\ Len(decoded.msgs) = 1
        /\ decoded.msgs[1].cls = ExpectedClass(original)
        /\ decoded.msgs[1].cls = "Message" => decoded.msgs[1].message = original.message

\* C5: A message whose payload is absent or of length zero cannot be encoded:
\* encode() returns None, never a frame or part of one.
C5_EmptyNotEncodable ==
    (frame # Unset /\ IsEmptyPayload(original.message)) => frame = PyNone

\* C5 witness: encode() was called on a TextMessage of the empty string and
\* returned None
C5_Witness ==
    /\ original = TextMessage(PyStr(<<>>))
    /\ frame = PyNone

\* The units of the frames of messages, in order, with their lengths
UnitsOfFrames(messages) ==
    [j \in 1..(3 * Len(messages)) |->
        LET m == messages[((j - 1) \div 3) + 1]
        IN  CASE (j - 1) % 3 = 0 -> [unit |-> "length", n |-> PROTOCOL_HEADER_LENGTH]
              [] (j - 1) % 3 = 1 -> [unit |-> "header", n |-> encoded_header_length(m)]
              [] OTHER -> [unit |-> "content", n |-> Len(encoded_message(m).b)]]

\* the number of bytes of the first k of us
RECURSIVE BytesOfUnits(_, _)
BytesOfUnits(us, k) == IF k = 0 THEN 0 ELSE BytesOfUnits(us, k - 1) + us[k].n

\* the number of units of us that n bytes hold whole
CompleteUnits(us, n) ==
    Cardinality({k \in 1..Len(us) : BytesOfUnits(us, k) <= n})

\* C19: on a stream of valid frames fed in chunks and drained after each, the
\* units removed are the first units of the frames, in order; the buffer is
\* the bytes fed less the bytes of the units removed; and after a drain every
\* unit the bytes fed hold whole has been removed.
C19_BufferAccounting ==
    /\ Len(units) <= 3 * Len(sent)
    /\ units = SubSeq(UnitsOfFrames(sent), 1, Len(units))
    /\ BytesOfUnits(units, Len(units)) <= fed
    /\ parser.data = SubSeq(sentBytes, BytesOfUnits(units, Len(units)) + 1, fed)
    /\ ~pending => Len(units) = CompleteUnits(UnitsOfFrames(sent), fed)

\* C19 witness: after a drain the first frame and the length prefix of the
\* second have been removed, and a part of the second header is buffered
C19_Witness ==
    /\ ~pending
    /\ Len(units) = 4
    /\ parser.data # <<>>
    /\ feeds = "mixed"

-----------------------------------------------------------------------------
(* Properties of the client                                                *)

\* message carries the close sentinel as its text
CarriesSentinel(message) ==
    IsTextMessage(message) /\ message.message = PyStr(CLOSE_CONTENT)

\* the frame test_client.py sends
TestEventFrame == encode(EventMessage(PyStr(Name_test_event), PyStr(Str_hello))).b

\* the client has read and parsed all the server end wrote, a CloseMessage
\* frame included
ClientDrainedClose ==
    /\ \E i \in 1..Len(peerSent) : IsCloseMessage(peerSent[i])
    /\ s2c = <<>>
    /\ client.message_parser = NewParser
    /\ client.pc \in {"while", "recv", "sleep", "exit", "done"}

\* C6: a CloseMessage frame sent to a client draining receive_messages() is
\* never yielded to the caller, and once the client has drained it the
\* client's socket is closed and released, its listening flag is false, and
\* the client has sent nothing for it: the stream to the server holds at most
\* the frame the caller sent.
C6_ClientCloseSemantics ==
    /\ \A i \in 1..Len(delivered) : ~CarriesSentinel(delivered[i])
    /\ ClientDrainedClose =>
           /\ client.socket = "none"
           /\ clientEnd = "closed"
           /\ ~client.listen_socket
           /\ c2s \in {<<>>, TestEventFrame}

\* the client is not interrupted from outside
ClientInterrupted == client.exc = "KeyboardInterrupt"

\* C7: test_client.py against test_server.py, whose handler of test_event
\* returns a CloseMessage: unless the client is interrupted from outside,
\* its loop over receive_messages() eventually ends without raising, with
\* the client's socket closed.
C7_EndToEndClose ==
    (handlers = TestServerRegistry) =>
        <>(\/ ClientInterrupted
           \/ /\ client.pc = "done"
              /\ client.exc = "none"
              /\ client.socket = "none"
              /\ clientEnd = "closed")

-----------------------------------------------------------------------------
(* Properties of the thread of a connection                                *)

\* the event name of message is a key of the event-handler mapping
RegisteredEvent(message) ==
    /\ IsEventMessage(message)
    /\ event_name(message).k = "str"
    /\ HasKey(handlers.event.items, event_name(message).s)

EventInvocation(message) == [slot |-> "event", name |-> event_name(message)]
JsonInvocation == [slot |-> "json", name |-> PyNone]

\* the handler invocation is passed to, and no other: it is selected and not
\* yet called, or it is the one handler called
PassedTo(invocation) ==
    IF conn.pc = "call"
    THEN /\ invoked = <<>>
         /\ conn.selected.slot = invocation.slot
         /\ conn.selected.name = invocation.name
    ELSE invoked = <<invocation>>

\* C8: an EventMessage whose event name is a key of the event-handler mapping
\* is passed to that event handler and to no other handler, a JSON handler
\* registered or not; an EventMessage whose event name is no key is passed to
\* the JSON handler when one is registered; no message is passed to more than
\* one handler.
C8_DispatchPrecedence ==
    /\ Len(invoked) <= 1
    /\ (conn.message # PyNone /\ IsEventMessage(conn.message)) =>
           /\ RegisteredEvent(conn.message) =>
                  /\ PassedTo(EventInvocation(conn.message))
                  /\ conn.selected.fn =
                         GetKey(handlers.event.items, event_name(conn.message).s)
           /\ (~RegisteredEvent(conn.message) /\ handlers.json # PyNone) =>
                  /\ PassedTo(JsonInvocation)
                  /\ conn.selected.fn = handlers.json

\* C8 witness: with a JSON handler registered too, an event with a registered
\* name has been passed to its event handler
C8_Witness ==
    /\ conn.message # PyNone
    /\ RegisteredEvent(conn.message)
    /\ handlers.json # PyNone
    /\ invoked = <<EventInvocation(conn.message)>>

\* message is a JSONMessage, or an EventMessage with an unregistered name, and
\* the registry has no JSON handler
Unmatched(message) ==
    /\ IsJSONMessage(message)
    /\ ~RegisteredEvent(message)
    /\ handlers.json = PyNone

\* C9: a JSONMessage, or an EventMessage with an unregistered event name, read
\* on a connection whose registry has no JSON handler is discarded: no
\* handler is selected or called, nothing is written, the loop goes on to the
\* next message, a connection that was open stays open and listening, and the
\* worker stays in its accept loop.
C9_UnmatchedDiscarded ==
    (conn.message # PyNone /\ Unmatched(conn.message)) =>
        /\ invoked = <<>>
        /\ wrote = <<>>
        /\ conn.pc = "for"
        /\ conn.selected.kind = "none"
        /\ conn.closed_at = 0 =>
               /\ conn.client_socket = "open"
               /\ conn.listen_socket
               /\ serverEnd = "open"
        /\ worker.pc = "accept"

\* C9 witness: a JSONMessage was discarded on an open connection, with a text
\* handler and an event handler registered
C9_Witness ==
    /\ conn.message = JSONMessage(PyDict(<<Item(Str_a, PyInt(1))>>))
    /\ Unmatched(conn.message)
    /\ handlers.text # PyNone
    /\ conn.pc = "for"
    /\ conn.client_socket = "open"

\* the handler of the message in dispatch returned or yielded a CloseMessage
HandlerIssuedClose == conn.last = "close"

\* the connection was closed at an earlier message than the one in dispatch
ClosedEarlier == conn.closed_at # 0 /\ conn.closed_at < conn.dispatched

\* after a handler-issued close no further value of the handler is consumed,
\* and the connection is closed
ClosedByHandler ==
    /\ conn.gen = <<>>
    /\ conn.pc \notin {"call", "gen"}
    /\ conn.client_socket = "none"
    /\ ~conn.listen_socket
    /\ serverEnd = "closed"

\* C10 as claimed: when a handler returns a CloseMessage or its generator
\* yields one, no further value of the handler is consumed, no frame at all
\* is written from that point on, a CloseMessage frame included, and the
\* connection is closed.
C10_HandlerCloseSendsNothing ==
    /\ HandlerIssuedClose =>
           /\ ClosedByHandler
           /\ \A i \in 1..Len(wrote) : ~IsCloseMessage(wrote[i])
    /\ ClosedEarlier => wrote = <<>>

\* C10 as amended: when a handler returns a CloseMessage or its generator
\* yields one, no further value of the handler is consumed and the
\* connection is closed; the only frame written from that point on is one
\* CloseMessage frame, written when this close is the one that closes the
\* connection: always when the client end is open, never when the connection
\* was closed already.
C10_HandlerCloseSendsCourtesy ==
    /\ HandlerIssuedClose =>
           /\ ClosedByHandler
           /\ \A i \in 1..Len(wrote) : IsCloseMessage(wrote[i]) => i = Len(wrote)
           /\ (conn.closed_at = conn.dispatched /\ clientEnd = "open") =>
                  /\ wrote # <<>>
                  /\ IsCloseMessage(wrote[Len(wrote)])
           /\ conn.closed_at # conn.dispatched =>
                  \A i \in 1..Len(wrote) : ~IsCloseMessage(wrote[i])
    /\ ClosedEarlier => wrote = <<>>

\* C10 witness: a generator yielded a value, which was sent, and then a
\* CloseMessage: the CloseMessage frame was written and the connection closed
C10_Witness ==
    /\ HandlerIssuedClose
    /\ conn.closed_at = conn.dispatched
    /\ wrote = <<TextMessage(PyStr(Str_a)), CloseMessage>>
    /\ conn.client_socket = "none"

\* the thread has read and parsed all the client end wrote, a CloseMessage
\* frame included
ServerDrainedClose ==
    /\ \E i \in 1..Len(peerSent) : IsCloseMessage(peerSent[i])
    /\ c2s = <<>>
    /\ conn.message_parser = NewParser
    /\ conn.pc \in {"while", "sleep", "exit"}

\* C11: a CloseMessage frame the client sent is passed to no handler, a
\* registered text handler included, and once the thread has drained it the
\* connection is closed (socket released, listening flag false) and nothing
\* was written for it.
C11_ReceivedClose ==
    /\ (conn.message # PyNone /\ CarriesSentinel(conn.message)) =>
           /\ conn.selected.kind # "handler"
           /\ invoked = <<>>
           /\ wrote = <<>>
    /\ ServerDrainedClose =>
           /\ conn.client_socket = "none"
           /\ ~conn.listen_socket
           /\ serverEnd = "closed"

\* a receive of the thread returned zero bytes: the only way to the sleep
ZeroLengthRead == conn.pc = "sleep" /\ conn.new_data = 0

\* C12: once a receive of the thread has returned zero bytes, the read loop
\* is eventually left and the socket released.
C12_OrderlyPeerShutdown ==
    [](ZeroLengthRead => <>(conn.pc = "exit" /\ conn.client_socket = "none"))

-----------------------------------------------------------------------------
(* Properties of the supervisor                                            *)

\* start() is in its monitoring loop
Monitoring == supervisor.pc \in {"for", "start_worker", "record", "sleep"}

\* the slot holds a worker process that has ended
SlotDead(slot) ==
    /\ supervisor.workers[slot] # 0
    /\ ~is_alive(procs[supervisor.workers[slot]])

\* the slot holds a worker process that runs
SlotLive(slot) ==
    /\ supervisor.workers[slot] # 0
    /\ is_alive(procs[supervisor.workers[slot]])

\* process was constructed with the address, the socket type and the handler
\* registry of the server
SameArguments(process) ==
    /\ process.address = supervisor.address
    /\ process.socket_type = supervisor.socket_type
    /\ process.handlers = supervisor.handlers

\* C13: whenever a slot of the table holds a worker process that has ended
\* while the monitoring loop runs, the loop replaces it: the slot eventually
\* holds a running worker, unless a signal ends the supervisor first; and
\* every worker process is constructed with the address, the socket type and
\* the handler registry of the server.
C13_Respawn ==
    /\ [](\A i \in DOMAIN procs : SameArguments(procs[i]))
    /\ \A slot \in 1..WorkersQuantity :
           []((Monitoring /\ SlotDead(slot)) => <>(SlotLive(slot) \/ ~Monitoring))

\* C13 witness: a worker process ended by itself, and its slot holds a running
\* process started after it
C13_Witness ==
    /\ Monitoring
    /\ \E slot \in 1..WorkersQuantity :
           /\ SlotLive(slot)
           /\ supervisor.workers[slot] > WorkersQuantity
           /\ \E i \in 1..(supervisor.workers[slot] - 1) : procs[i].crashed

\* process was sent SIGTERM and joined with a timeout
TerminatedAndJoined(process) == process.sigterm /\ process.joined = "timeout"

\* C14: when the supervisor has exited after a signal, every worker process
\* that was started and had not ended by itself was terminated and joined
\* with a bounded wait.
C14_SupervisorShutdown ==
    supervisor.pc = "exited" =>
        \A i \in DOMAIN procs : procs[i].crashed \/ TerminatedAndJoined(procs[i])

\* the worker has handled a termination signal
SignalHandled == worker.pc = "exit"

\* C16: a worker that has handled a termination signal has set its kill
\* event, and a thread at the test of its loop with the kill event set
\* leaves the loop by its next step.
C16_WorkerCancellation ==
    /\ [](SignalHandled => worker.kill_event)
    /\ [][(worker.kill_event /\ conn.pc = "while") => conn'.pc = "exit"]_conn

\* The message the value of a handler is to be sent as
NormalizedResult(result) ==
    IF IsMessageObject(result) THEN result
    ELSE IF result.k = "dict" THEN JSONMessage(result)
    ELSE TextMessage(PyStr(PyStrOf(result)))

\* The values of results that are not None
RECURSIVE PresentResults(_)
PresentResults(results) ==
    IF results = <<>> THEN <<>>
    ELSE IF Head(results) = PyNone THEN PresentResults(Tail(results))
    ELSE <<Head(results)>> \o PresentResults(Tail(results))

\* C17: with the connection open at both ends, the frames written for a
\* message are, in order, one frame for each value other than None that its
\* handler has returned or yielded: the value itself if it is a Message, a
\* JSONMessage of it if it is a dict, a TextMessage of str() of it otherwise.
C17_ResultNormalization ==
    (clientEnd = "open" /\ serverEnd = "open") =>
        wrote = [i \in 1..Len(PresentResults(conn.results)) |->
                    NormalizedResult(PresentResults(conn.results)[i])]

\* C21: a client that has started reads with a finite timeout, and a read
\* with nothing buffered and the server end not closed does not leave the
\* client where it was: it ends, and the loop is back at its test.
C21_ClientReadTimeout ==
    /\ client.socket = "open" => client.timeout # "none"
    /\ (client.pc = "recv" /\ s2c = <<>> /\ serverEnd # "closed") =>
           client.timeout # "none"

\* a read of the client has failed with an error of the transport
TransportError == client.exc \in SocketErrors

\* C22: the step in which a read of the client fails with a socket error
\* writes nothing to the server and yields nothing; from then on the socket
\* is released and closed, the listening flag is false, the error is the
\* one raised to the caller, and nothing more is written or yielded.
C22_ClientTransportError ==
    /\ [](TransportError =>
             /\ client.socket = "none"
             /\ ~client.listen_socket
             /\ clientEnd = "closed"
             /\ client.pc \in {"raised", "failed"})
    /\ [][(TransportError \/ TransportError') =>
             (delivered' = delivered /\ c2s' = c2s)]_<<client, delivered, c2s>>

\* C22 witness: the read failed with a frame of the server still unread and
\* after a message was yielded, and the with block was left by the error
C22_Witness ==
    /\ TransportError
    /\ client.pc = "failed"
    /\ delivered # <<>>
    /\ s2c # <<>>
    /\ serverEnd = "open"

\* C23: for a message taken from the parser after the message whose handler
\* closed the connection, no handler is selected or invoked, no value of a
\* handler is taken, and no send is attempted on the closed connection.
C23_NoDispatchAfterClose ==
    ClosedEarlier =>
        /\ conn.selected.kind # "handler"
        /\ invoked = <<>>
        /\ conn.results = <<>>
        /\ conn.exc # "AttributeError"

-----------------------------------------------------------------------------
(* Properties of the parser on streams of any bytes                        *)

\* the buffer of self holds all the bytes of a header that is no UTF-8 or no
\* JSON
UndecodableHeader(self) ==
    /\ Truthy(self.current_header_length)
    /\ ~Truthy(self.current_header)
    /\ Len(self.data) >= self.current_header_length.n
    /\ decode_dict(SliceTo(self.data, self.current_header_length.n)).exc # "none"

\* the buffer of self holds all the bytes of a text/plain or application/json
\* payload that is no UTF-8 or no JSON
UndecodablePayload(self) ==
    /\ Truthy(self.current_header)
    /\ self.current_header.k = "dict"
    /\ HasKey(self.current_header.items, HEADER_CONTENT_TYPE_KEY)
    /\ HasKey(self.current_header.items, HEADER_CONTENT_LENGTH_KEY)
    /\ GetKey(self.current_header.items, HEADER_CONTENT_TYPE_KEY)
           \in {PyStr(TEXT_PLAIN), PyStr(APPLICATION_JSON)}
    /\ GetKey(self.current_header.items, HEADER_CONTENT_LENGTH_KEY).k = "int"
    /\ Len(self.data) >= GetKey(self.current_header.items, HEADER_CONTENT_LENGTH_KEY).n
    /\ map_message_by_type(
           self, SliceTo(self.data,
                         GetKey(self.current_header.items, HEADER_CONTENT_LENGTH_KEY).n)).exc
           \in {"UnicodeDecodeError", "JSONDecodeError"}

\* C15: a drain of parse_messages that leaves in the buffer all the bytes of
\* a header or of a text/plain or application/json payload that cannot be
\* decoded has raised an error.
C15_DecodeFailuresPropagate ==
    (~pending /\ fed > 0 /\ (UndecodableHeader(parser) \/ UndecodablePayload(parser))) =>
        raised # "none"

UnitCycle == <<"length", "header", "content">>

\* C18: the parser removes units from its buffer in the cyclic order length
\* prefix, header, content, whatever the bytes.
C18_StepOrder ==
    \A i \in 1..Len(units) : units[i].unit = UnitCycle[((i - 1) % 3) + 1]

\* the first four bytes of b are no decimal integer for int()
MalformedPrefix(b) ==
    /\ Len(b) >= PROTOCOL_HEADER_LENGTH
    /\ \/ ~Utf8Decode(SubSeq(b, 1, PROTOCOL_HEADER_LENGTH)).ok
       \/ ~PyIntOfStr(Utf8Decode(SubSeq(b, 1, PROTOCOL_HEADER_LENGTH)).s).ok

\* self is between two frames and the first four bytes of its buffer are no
\* decimal integer
AtMalformedPrefix(self) ==
    /\ self.current_header_length = PyNone
    /\ self.current_header = PyNone
    /\ MalformedPrefix(self.data)

\* C20: from a parser that is between two frames with four buffered bytes
\* that are no decimal integer, every received_data only appends its bytes
\* and every drain of parse_messages raises nothing, yields nothing and
\* leaves the buffer, the pending header length and the pending header as
\* they are; so the parser stays there and yields no message any more.
C20_MalformedLengthPrefix ==
    [][AtMalformedPrefix(parser) =>
           /\ parser' = [parser EXCEPT !.data = SubSeq(sentBytes, fed - Len(parser.data) + 1, fed')]
           /\ AtMalformedPrefix(parser')
           /\ yielded' = yielded
           /\ units' = units
           /\ (pending /\ ~pending') => (raised' = "none" /\ lastDrain' = <<>>)]_parserVars

\* C20 witness: after a frame that parsed, four bytes that are no integer
\* and all the bytes after them were fed in several calls and drained
C20_Witness ==
    /\ AtMalformedPrefix(parser)
    /\ yielded # <<>>
    /\ wire = <<>>
    /\ ~pending
    /\ raised = "none"
    /\ feeds = "mixed"
    /\ Len(parser.data) > PROTOCOL_HEADER_LENGTH

-----------------------------------------------------------------------------
vars == <<parserVars, codecVars, netVars, clientVars, connVars, supVars>>

\* The sender and the parser
Init == ParserInit /\ CodecIdle /\ NetInit /\ ClientIdle /\ ServerIdle /\ SupervisorIdle
Next == ParserNext
Spec == Init /\ [][Next]_vars

\* One message through encode() and a fresh parser
SpecCodecInit ==
    CodecInit /\ ParserInit /\ NetInit /\ ClientIdle /\ ServerIdle /\ SupervisorIdle
SpecCodec == SpecCodecInit /\ [][CodecNext]_vars

\* A client and a scripted server end
SpecClientInit ==
    ParserInit /\ CodecIdle /\ NetInit /\ ClientInit /\ ServerIdle /\ SupervisorIdle
SpecClientNext ==
    \/ ClientNext
    \/ ClientInterrupt
    \/ \E exc \in SocketErrors : ClientRecvError(exc)
    \/ ServerPeerAccept
    \/ \E m \in ServerPeerMessages : ServerPeerSend(m)
    \/ ServerPeerClose
SpecClient == SpecClientInit /\ [][SpecClientNext]_vars

\* A worker with one connection and a scripted client end
SpecConnInit ==
    /\ ParserInit /\ CodecIdle /\ NetInit /\ ClientIdle /\ ServerInit(Registries)
    /\ SupervisorIdle
SpecConnNext ==
    \/ ServerNext
    \/ ClientPeerConnect
    \/ \E m \in ClientPeerMessages : ClientPeerSend(m)
    \/ ClientPeerClose
SpecConn == SpecConnInit /\ [][SpecConnNext]_vars

\* The client process is scheduled: it takes its next step when it has one.
\* A step that encodes or parses a frame is enabled exactly at its control
\* point and leaves it after finitely many steps, so that its weak fairness
\* is that the client is not at that point forever; it is stated so.
ClientFairness ==
    /\ WF_vars(ClientStart)
    /\ WF_vars(ClientWhile)
    /\ WF_vars(ClientRecvEof)
    /\ WF_vars(ClientSleep)
    /\ []<>~(client.pc = "send")
    /\ []<>~(client.pc = "recv" /\ s2c # <<>>)
    /\ []<>~(client.pc \in {"exit", "raised"})

\* The worker and the thread of the connection are scheduled; a timeout of
\* recv is never owed.
ServerFairness ==
    /\ WF_vars(WorkerAccept)
    /\ WF_vars(ConnRun)
    /\ WF_vars(ConnExit)
    /\ WF_vars(\E n \in RecvSizes(c2s) : ConnRecv(n))
    /\ WF_vars(ConnRecvEof)
    /\ WF_vars(ConnSleep)
    /\ []<>~(conn.pc = "for")
    /\ []<>~(conn.pc = "call")
    /\ []<>~(conn.pc = "gen")

\* test_client.py against test_server.py.  An interrupt of the client may
\* come or not.
SpecE2EInit ==
    /\ ParserInit /\ CodecIdle /\ NetInit /\ ClientInit
    /\ ServerInit({TestServerRegistry, TestServerYieldRegistry})
    /\ SupervisorIdle
SpecE2ENext == ClientNext \/ ServerNext \/ ClientInterrupt
SpecE2E == SpecE2EInit /\ [][SpecE2ENext]_vars /\ ClientFairness /\ ServerFairness

\* The parser on streams of any bytes
SpecBytesInit ==
    BytesInit /\ CodecIdle /\ NetInit /\ ClientIdle /\ ServerIdle /\ SupervisorIdle
SpecBytes == SpecBytesInit /\ [][BytesNext]_vars

\* The main thread of the supervisor is scheduled; neither a signal nor the
\* end of a worker process is ever owed.
SupervisorFairness ==
    /\ WF_vars(SupervisorStart)
    /\ WF_vars(SupervisorFor)
    /\ WF_vars(SupervisorStartWorker)
    /\ WF_vars(SupervisorRecordWorker)
    /\ WF_vars(SupervisorSleep)
    /\ WF_vars(SupervisorExit)

\* The supervisor of test_server.py and its worker processes
SpecSupervisorInit ==
    /\ ParserInit /\ CodecIdle /\ NetInit /\ ClientIdle /\ ServerIdle
    /\ SupervisorInit(TestServerRegistry)
SpecSupervisor == SpecSupervisorInit /\ [][SupervisorNext]_vars /\ SupervisorFairness

\* A worker that may get a termination signal, one connection whose handler
\* gives values of every kind, and a scripted client end
SpecWorkerInit ==
    /\ ParserInit /\ CodecIdle /\ NetInit /\ ClientIdle /\ ServerInit({ValueRegistry})
    /\ SupervisorIdle
SpecWorkerNext ==
    \/ ServerNext
    \/ WorkerTerminateSignal
    \/ ClientPeerConnect
    \/ \E m \in {TextMessage(PyStr(Str_a))} : ClientPeerSend(m)
    \/ ClientPeerClose
SpecWorker == SpecWorkerInit /\ [][SpecWorkerNext]_vars

=============================================================================
